---- MODULE Spec2Model ----
(***************************************************************************)
(* A state-machine model of the Streamia account / catalog backend.        *)
(*                                                                         *)
(* Every HTTP request is a small process held in a slot of reqs: it        *)
(* arrives on a route, passes the session gate when the route mounts       *)
(* authenticate, and then runs its handler.  A handler is one atomic       *)
(* action unless a claim is about what happens between its awaits; those   *)
(* handlers are split at their suspension points.                          *)
(*                                                                         *)
(* Time is counted in whole hours (the token lifetime "2h" is 2 ticks).    *)
(***************************************************************************)
EXTENDS Integers, Sequences, FiniteSets, TLC

VARIABLES
    env,        \* process.env: JWT_SECRET, JWT_EXPIRES_IN, NODE_ENV (fixed at start)
    now,        \* the wall clock, in hours
    tokens,     \* every token generateToken has returned so far (held by clients)
    users,      \* the User collection
    nextId,     \* the next ObjectId the User collection hands out
    nextDoc,    \* the next _id of a Rating or Favorite document
    ratings,    \* the Rating collection
    favorites,  \* the Favorite collection
    comments,   \* the Comment collection
    movies,     \* the Movie collection
    dbUp,       \* whether the store answers (mongoose is connected)
    cache,      \* movieController's module-level cache Map
    fetches,    \* calls made to the external video provider so far
    reqs,       \* the requests in flight, one per slot
    hist        \* what the 201 responses created: bookkeeping, never read by the code

\* The catalog side of the state
catalog == <<movies, dbUp, cache, fetches>>

vars == <<env, now, tokens, users, nextId, nextDoc, ratings, favorites, comments,
          movies, dbUp, cache, fetches, reqs, hist>>

(***************************************************************************)
(* Bounds of the model.                                                    *)
(***************************************************************************)
MaxTime == 4
MaxTokens == 2
MaxAccounts == 2
MaxRatings == 2
MaxFavorites == 2
MaxComments == 2

Slots == {1, 2}

(***************************************************************************)
(* Token issuer / verifier (utils/helpers).                                *)
(***************************************************************************)
FallbackSecret == "fallback_secret_key"

\* process.env.JWT_SECRET || "fallback_secret_key"   ("" stands for unset)
Secret(e) == IF e.JWT_SECRET = "" THEN FallbackSecret ELSE e.JWT_SECRET

DefaultExpiresIn == 2

\* process.env.JWT_EXPIRES_IN || "2h"   (0 stands for unset)
ExpiresIn(e) == IF e.JWT_EXPIRES_IN = 0 THEN DefaultExpiresIn ELSE e.JWT_EXPIRES_IN

\* jwt.sign(payload, secret, {expiresIn}): the payload with iat and exp, signed with secret
JwtSign(payload, secret, expiresIn, t) ==
    [kind |-> "jwt", id |-> payload.id, email |-> payload.email,
     iat |-> t, exp |-> t + expiresIn, key |-> secret]

generateToken(userId, email, e, t) ==
    JwtSign([id |-> userId, email |-> email], Secret(e), ExpiresIn(e), t)

Null == [null |-> TRUE]

\* jwt.verify called with ignoreExpiration
JwtVerifyThrows_ignoreExpiration(token, secret, t) ==
    \/ token.kind # "jwt"
    \/ token.key # secret

\* jwt.verify(token, secret) throws unless the token is a JWT signed with secret
\* whose exp is still ahead of the clock
JwtVerifyThrows(token, secret, t) ==
    \/ token.kind # "jwt"
    \/ token.key # secret
    \/ t >= token.exp

\* try { return jwt.verify(...) } catch { return null }: every throw, the
\* library's own or an unexpected one (fault = "verify"), becomes null
verifyToken(token, e, t, fault) ==
    IF fault = "verify" \/ JwtVerifyThrows(token, Secret(e), t)
    THEN Null
    ELSE [id |-> token.id, email |-> token.email]

NullTok == [kind |-> "null"]
EmptyTok == [kind |-> "empty"]

\* A header is absent, or the list authHeader.split(" ") gives: strings, with
\* the credential (a token) second.  <<"">> is the empty header.
NoHeader == [present |-> FALSE, parts |-> <<>>]
Header(parts) == [present |-> TRUE, parts |-> parts]

\* the scheme is not compared with "Bearer"
extractTokenFromHeader_anyScheme(authHeader) ==
    IF ~authHeader.present \/ authHeader.parts = <<"">> THEN NullTok
    ELSE IF Len(authHeader.parts) # 2 THEN NullTok
    ELSE authHeader.parts[2]

extractTokenFromHeader(authHeader) ==
    IF ~authHeader.present \/ authHeader.parts = <<"">> THEN NullTok
    ELSE IF Len(authHeader.parts) # 2 \/ authHeader.parts[1] # "Bearer" THEN NullTok
    ELSE authHeader.parts[2]

\* !token
Falsy(token) == token.kind \in {"null", "empty"}

(***************************************************************************)
(* Session gate (middlewares/authMiddleware).                              *)
(***************************************************************************)
NoBody == [none |-> TRUE]
NoRes == [status |-> 0, body |-> NoBody]
Res(status, body) == [status |-> status, body |-> body]
Err(status, msg) == [status |-> status, body |-> [error |-> msg]]

GateOut(res, nextCalls, userId, userEmail) ==
    [res |-> res, nextCalls |-> nextCalls, userId |-> userId, userEmail |-> userEmail]

\* the gate also looks the account of the token up in the store
authenticate_knownAccount(authHeader, fault, e, t) ==
    IF fault = "extract"
    THEN GateOut(Err(500, "Internal server error"), 0, "", "")
    ELSE LET token == extractTokenFromHeader(authHeader) IN
         IF Falsy(token)
         THEN GateOut(Err(401, "No token provided"), 0, "", "")
         ELSE LET decoded == verifyToken(token, e, t, fault) IN
              IF decoded = Null \/ ~\E u \in users : u.id = decoded.id
              THEN GateOut(Err(401, "Invalid or expired token"), 0, "", "")
              ELSE GateOut(NoRes, 1, decoded.id, decoded.email)

\* fault = "extract": extractTokenFromHeader throws inside the try block;
\* fault = "verify": jwt.verify throws something unexpected inside verifyToken.
authenticate(authHeader, fault, e, t) ==
    IF fault = "extract"
    THEN GateOut(Err(500, "Internal server error"), 0, "", "")
    ELSE LET token == extractTokenFromHeader(authHeader) IN
         IF Falsy(token)
         THEN GateOut(Err(401, "No token provided"), 0, "", "")
         ELSE LET decoded == verifyToken(token, e, t, fault) IN
              IF decoded = Null
              THEN GateOut(Err(401, "Invalid or expired token"), 0, "", "")
              ELSE GateOut(NoRes, 1, decoded.id, decoded.email)

(***************************************************************************)
(* Requests.  A slot holds one request from arrival to response.  userId,  *)
(* userEmail are req.userId / req.userEmail ("" is undefined); nextCalls   *)
(* counts the gate's calls of next(); ran, at are bookkeeping: whether the *)
(* handler has started, and the clock when the gate decided; queried is    *)
(* kept by the handlers that validate their input: whether the handler has *)
(* sent a query to the store.                                              *)
(***************************************************************************)
IdleReq ==
    [op |-> "none", pc |-> "idle", hdr |-> NoHeader, fault |-> "none",
     body |-> NoBody, userId |-> "", userEmail |-> "", nextCalls |-> 0,
     ran |-> FALSE, at |-> 0, loc |-> NoBody, res |-> NoRes, params |-> NoBody,
     queried |-> FALSE]

\* every check of the input is made after the handler's first query
reachedStore_validationLast(early) == TRUE

\* Whether a handler that validates its input has sent its first query to
\* the store when it leaves its first step: the returns for a missing
\* session and for a missing or malformed input come before the first await
\* on a Mongoose model.
reachedStore(early) == ~early

\* Routes that mount authenticate before the handler (routes/*.ts)
Protected ==
    {"getUserProfile", "updateUserProfile", "deleteUserAccount", "addRating", "addFavorite",
     "updateFavoriteNote", "removeFavorite", "updateRating", "deleteRating",
     "createComment", "updateComment", "deleteComment", "changePassword"}

Arrive(r, op, hdr, fault, body) ==
    /\ reqs[r].pc = "idle"
    /\ reqs' = [reqs EXCEPT ![r] =
                  [IdleReq EXCEPT !.op = op, !.hdr = hdr, !.fault = fault,
                                  !.body = body,
                                  !.pc = IF op \in Protected THEN "gate" ELSE "handler"]]

\* A request on a route with a path parameter (req.params)
ArriveAt(r, op, hdr, params, body) ==
    /\ reqs[r].pc = "idle"
    /\ reqs' = [reqs EXCEPT ![r] =
                  [IdleReq EXCEPT !.op = op, !.hdr = hdr, !.params = params,
                                  !.body = body,
                                  !.pc = IF op \in Protected THEN "gate" ELSE "handler"]]

\* Express runs authenticate, then the handler once for each next()
Authenticate(r) ==
    /\ reqs[r].pc = "gate"
    /\ LET out == authenticate(reqs[r].hdr, reqs[r].fault, env, now) IN
       reqs' = [reqs EXCEPT ![r].res = out.res,
                            ![r].nextCalls = out.nextCalls,
                            ![r].userId = out.userId,
                            ![r].userEmail = out.userEmail,
                            ![r].at = now,
                            ![r].pc = IF out.nextCalls > 0 THEN "handler" ELSE "done"]
    /\ UNCHANGED <<env, now, tokens, users, nextId, nextDoc, ratings, favorites, comments, catalog, hist>>

\* The response has been sent: the slot is free again
Finish(r) ==
    /\ reqs[r].pc = "done"
    /\ reqs' = [reqs EXCEPT ![r] = IdleReq]
    /\ UNCHANGED <<env, now, tokens, users, nextId, nextDoc, ratings, favorites, comments, catalog, hist>>

Tick ==
    /\ now < MaxTime
    /\ now' = now + 1
    /\ UNCHANGED <<env, tokens, users, nextId, nextDoc, ratings, favorites, comments, catalog, reqs, hist>>

(***************************************************************************)
(* The User collection (models/User).  password, passwordResetToken and    *)
(* passwordResetExpires are select: false: a query returns them only when  *)
(* it asks with .select("+...").                                           *)
(***************************************************************************)
Project(u) ==
    [id |-> u.id, firstName |-> u.firstName, lastName |-> u.lastName,
     age |-> u.age, email |-> u.email]

WithPassword(u) ==
    [id |-> u.id, firstName |-> u.firstName, lastName |-> u.lastName,
     age |-> u.age, email |-> u.email, password |-> u.password]

\* User.findById(id)
findById(us, id) ==
    IF \E u \in us : u.id = id
    THEN Project(CHOOSE u \in us : u.id = id)
    ELSE Null

(***************************************************************************)
(* GET /api/users/me                                                       *)
(***************************************************************************)
getUserProfile(userId, us) ==
    IF userId = "" THEN Err(401, "Unauthorized")
    ELSE LET user == findById(us, userId) IN
         IF user = Null THEN Err(404, "User not found.")
         ELSE Res(200, [user |-> [id |-> user.id, firstName |-> user.firstName,
                                  lastName |-> user.lastName, age |-> user.age,
                                  email |-> user.email]])

GetUserProfile(r) ==
    /\ reqs[r].pc = "handler"
    /\ reqs[r].op = "getUserProfile"
    /\ reqs' = [reqs EXCEPT ![r].res = getUserProfile(reqs[r].userId, users),
                            ![r].ran = TRUE,
                            ![r].pc = "done"]
    /\ UNCHANGED <<env, now, tokens, users, nextId, nextDoc, ratings, favorites, comments, catalog, hist>>

(***************************************************************************)
(* What a client can put in the Authorization header.                      *)
(***************************************************************************)
JunkTok == [kind |-> "junk"]

\* Tokens an outsider can build: the id and email are public, the key is a
\* guess or the fallback key printed in the source
Forged ==
    {[kind |-> "jwt", id |-> "u1", email |-> "a@x", iat |-> 0,
      exp |-> MaxTime + 1, key |-> k] : k \in {"guessed", FallbackSecret}}

Headers(held) ==
    {NoHeader, Header(<<"">>), Header(<<"Bearer">>)}
    \cup {Header(<<"Bearer", t>>) : t \in held \cup Forged \cup {EmptyTok, JunkTok}}
    \cup {Header(<<"Basic", t>>) : t \in held}
    \cup {Header(<<"Bearer", t, "x">>) : t \in held}

(***************************************************************************)
(* The session gate and the token issuer on their own: generateToken is    *)
(* applied to the accounts of GateAccounts at any time, and GET /me        *)
(* requests arrive with any header.                                        *)
(***************************************************************************)
Envs ==
    [JWT_SECRET : {"", "s3cr3t"}, JWT_EXPIRES_IN : {0, 1},
     NODE_ENV : {"development", "production"}]

GateAccounts == {[id |-> "u1", email |-> "a@x"], [id |-> "u2", email |-> "b@x"]}

Init ==
    /\ env \in Envs
    /\ now = 0
    /\ tokens = {}
    /\ users = {}
    /\ nextId = 1
    /\ nextDoc = 1
    /\ ratings = {}
    /\ favorites = {}
    /\ comments = {}
    /\ movies = {}
    /\ dbUp = TRUE
    /\ cache = <<>>
    /\ fetches = 0
    /\ reqs = [r \in Slots |-> IdleReq]
    /\ hist = {}

IssueToken(a) ==
    /\ Cardinality(tokens) < MaxTokens
    /\ tokens' = tokens \cup {generateToken(a.id, a.email, env, now)}
    /\ UNCHANGED <<env, now, users, nextId, nextDoc, ratings, favorites, comments, catalog, reqs, hist>>

ArriveMe(r, hdr, fault) ==
    /\ Arrive(r, "getUserProfile", hdr, fault, NoBody)
    /\ UNCHANGED <<env, now, tokens, users, nextId, nextDoc, ratings, favorites, comments, catalog, hist>>

GateSlots == {1}

Next ==
    \/ Tick
    \/ \E a \in GateAccounts : IssueToken(a)
    \/ \E r \in GateSlots, h \in Headers(tokens) : ArriveMe(r, h, "none")
    \/ \E r \in GateSlots : Authenticate(r)
    \/ \E r \in GateSlots : GetUserProfile(r)
    \/ \E r \in GateSlots : Finish(r)

Spec == Init /\ [][Next]_vars

\* The same, with an unexpected failure injected into the gate's check
Faults == {"none", "extract", "verify"}

NextFault ==
    \/ Tick
    \/ \E a \in GateAccounts : IssueToken(a)
    \/ \E r \in GateSlots, h \in Headers(tokens), f \in Faults : ArriveMe(r, h, f)
    \/ \E r \in GateSlots : Authenticate(r)
    \/ \E r \in GateSlots : GetUserProfile(r)
    \/ \E r \in GateSlots : Finish(r)

SpecFault == Init /\ [][NextFault]_vars

(***************************************************************************)
(* Strings.  TLC cannot look inside a string, so the conversions and the   *)
(* patterns the code applies are given as tables over the strings the      *)
(* model's clients send.                                                   *)
(***************************************************************************)
\* String.prototype.toLowerCase (the schema's lowercase: true setter)
toLowerCase(s) ==
    CASE s = "A@x" -> "a@x"
      [] s = "B@x" -> "b@x"
      [] OTHER -> s

\* String.prototype.trim (the schema's trim: true setter)
trim(s) ==
    CASE s = " Ana " -> "Ana"
      [] s = " hi " -> "hi"
      [] OTHER -> s

\* z.string().email(): the strings with the shape of an address
WellFormedEmails == {"a@x", "A@x", "b@x", "B@x"}

\* min 8 characters with an upper-case and a lower-case letter, a digit and a special character
StrongPasswords == {"Abcd1234!", "Wxyz9876!"}

\* bcryptjs.hash(password, 10) and bcryptjs.compare(password, hash)
bcryptHash(password) == "$2a$10$" \o password
bcryptCompare_any(password, hash) == TRUE

bcryptCompare(password, hash) == hash = bcryptHash(password)

Has(b, f) == f \in DOMAIN b

(***************************************************************************)
(* utils/validators                                                        *)
(***************************************************************************)
NameOk(s) == s # ""
AgeOk(n) == n \in 13..150

registerSchema(b) ==
    /\ NameOk(b.firstName)
    /\ NameOk(b.lastName)
    /\ AgeOk(b.age)
    /\ b.email \in WellFormedEmails
    /\ b.password \in StrongPasswords
    /\ b.password = b.confirmPassword

loginSchema(b) == b.email \in WellFormedEmails /\ b.password # ""

updateProfileSchema(b) ==
    /\ Has(b, "firstName") => NameOk(b.firstName)
    /\ Has(b, "lastName") => NameOk(b.lastName)
    /\ Has(b, "age") => AgeOk(b.age)
    /\ Has(b, "email") => b.email \in WellFormedEmails

ValidationError == Err(400, "Validation error")

(***************************************************************************)
(* Queries and writes on the User collection.  Mongoose runs the schema's  *)
(* setters on the values of a filter and of an update as it does on a new  *)
(* document, so an email is lower-cased wherever it enters the store.      *)
(***************************************************************************)
\* the filter's email reaches the store as it was sent
findOneByEmail_noSetter(us, email) ==
    IF \E u \in us : u.email = email
    THEN CHOOSE u \in us : u.email = email
    ELSE Null

\* User.findOne({ email }), the stored document
findOneByEmail(us, email) ==
    IF \E u \in us : u.email = toLowerCase(email)
    THEN CHOOSE u \in us : u.email = toLowerCase(email)
    ELSE Null

\* The unique index on email
DuplicateKey(us, id, email) == \E u \in us : u.id # id /\ u.email = email

\* User.create(doc) with the ObjectId id: the document as stored, or a throw
\* (E11000) when the unique index on email refuses it
insertUser(us, id, doc) ==
    LET stored == [id |-> id, firstName |-> trim(doc.firstName),
                   lastName |-> trim(doc.lastName), age |-> doc.age,
                   email |-> toLowerCase(doc.email), password |-> doc.password,
                   passwordResetToken |-> "", passwordResetExpires |-> 0]
    IN [threw |-> DuplicateKey(us, id, stored.email), doc |-> stored]

ObjectId(n) == IF n = 1 THEN "u1" ELSE IF n = 2 THEN "u2" ELSE IF n = 3 THEN "u3" ELSE "u4"

\* every field of the body goes into the update document
applyUpdate_wholeBody(u, b) ==
    [u EXCEPT !.firstName = IF Has(b, "firstName") THEN trim(b.firstName) ELSE @,
              !.lastName = IF Has(b, "lastName") THEN trim(b.lastName) ELSE @,
              !.age = IF Has(b, "age") THEN b.age ELSE @,
              !.email = IF Has(b, "email") THEN toLowerCase(b.email) ELSE @,
              !.password = IF Has(b, "password") THEN b.password ELSE @]

\* The update document { ...(firstName && { firstName }), ... } applied to u
applyUpdate(u, b) ==
    [u EXCEPT !.firstName = IF Has(b, "firstName") THEN trim(b.firstName) ELSE @,
              !.lastName = IF Has(b, "lastName") THEN trim(b.lastName) ELSE @,
              !.age = IF Has(b, "age") THEN b.age ELSE @,
              !.email = IF Has(b, "email") THEN toLowerCase(b.email) ELSE @]

UserView(u) ==
    [id |-> u.id, firstName |-> u.firstName, lastName |-> u.lastName,
     age |-> u.age, email |-> u.email]

(***************************************************************************)
(* POST /api/users/register: validation and the findOne, then (after the   *)
(* awaits of findOne and bcryptjs.hash) the create and the response.       *)
(***************************************************************************)
RegisterUser1(r) ==
    /\ reqs[r].op = "registerUser" /\ reqs[r].pc = "handler"
    /\ LET b == reqs[r].body IN
       reqs' = [reqs EXCEPT ![r].ran = TRUE,
                  ![r].queried = reachedStore(~registerSchema(b)),
                  ![r].res = IF ~registerSchema(b) THEN ValidationError
                             ELSE IF findOneByEmail(users, b.email) # Null
                                  THEN Err(409, "This email is already used")
                                  ELSE NoRes,
                  ![r].pc = IF registerSchema(b) /\ findOneByEmail(users, b.email) = Null
                            THEN "create" ELSE "done"]
    /\ UNCHANGED <<env, now, tokens, users, nextId, nextDoc, ratings, favorites, comments, catalog, hist>>

RegisterUser2(r) ==
    /\ reqs[r].op = "registerUser" /\ reqs[r].pc = "create"
    /\ LET b == reqs[r].body
           w == insertUser(users, ObjectId(nextId),
                           [firstName |-> b.firstName, lastName |-> b.lastName,
                            age |-> b.age, email |-> b.email,
                            password |-> bcryptHash(b.password)])
       IN IF w.threw
          THEN /\ reqs' = [reqs EXCEPT ![r].res = Err(500, "Please try again later"),
                                       ![r].pc = "done"]
               /\ UNCHANGED <<users, nextId, hist>>
          ELSE /\ users' = users \cup {w.doc}
               /\ nextId' = nextId + 1
               /\ reqs' = [reqs EXCEPT
                             ![r].res = Res(201, [message |-> "Created account successfully.",
                                                  user |-> UserView(w.doc)]),
                             ![r].pc = "done"]
               /\ hist' = hist \cup {[email |-> b.email, password |-> b.password,
                                      user |-> UserView(w.doc)]}
    /\ UNCHANGED <<env, now, tokens, nextDoc, ratings, favorites, comments, catalog>>

(***************************************************************************)
(* POST /api/users/login                                                   *)
(***************************************************************************)
\* the whole document, password hash included, is sent back
loginUser_wholeDocument(b, us, e, t) ==
    IF ~loginSchema(b) THEN ValidationError
    ELSE LET found == findOneByEmail(us, b.email)
             user == IF found = Null THEN Null ELSE WithPassword(found)
         IN
         IF user = Null THEN Err(401, "Email or password incorrect")
         ELSE IF ~bcryptCompare(b.password, user.password)
              THEN Err(401, "Email or password invalid")
              ELSE Res(200, [message |-> "Login succesful!",
                             token |-> generateToken(user.id, user.email, e, t),
                             user |-> user])

loginUser(b, us, e, t) ==
    IF ~loginSchema(b) THEN ValidationError
    ELSE LET found == findOneByEmail(us, b.email)
             user == IF found = Null THEN Null ELSE WithPassword(found)
         IN
         IF user = Null THEN Err(401, "Email or password incorrect")
         ELSE IF ~bcryptCompare(b.password, user.password)
              THEN Err(401, "Email or password invalid")
              ELSE Res(200, [message |-> "Login succesful!",
                             token |-> generateToken(user.id, user.email, e, t),
                             user |-> UserView(user)])

LoginUser(r) ==
    /\ reqs[r].op = "loginUser" /\ reqs[r].pc = "handler"
    /\ LET res == loginUser(reqs[r].body, users, env, now) IN
       /\ reqs' = [reqs EXCEPT ![r].res = res, ![r].ran = TRUE, ![r].pc = "done"]
       /\ tokens' = IF res.status = 200 THEN tokens \cup {res.body.token} ELSE tokens
    /\ UNCHANGED <<env, now, users, nextId, nextDoc, ratings, favorites, comments, catalog, hist>>

(***************************************************************************)
(* PUT /api/users/me: the checks and the findOne of the new email, then    *)
(* the findByIdAndUpdate and the response.                                 *)
(***************************************************************************)
UpdateUserProfile1(r) ==
    /\ reqs[r].op = "updateUserProfile" /\ reqs[r].pc = "handler"
    /\ LET b == reqs[r].body
           res == IF reqs[r].userId = "" THEN Err(401, "Unauthorized")
                  ELSE IF ~updateProfileSchema(b) THEN ValidationError
                  ELSE IF Has(b, "email")
                          /\ findOneByEmail(users, b.email) # Null
                          /\ findOneByEmail(users, b.email).id # reqs[r].userId
                       THEN Err(409, "This email is already registered.")
                       ELSE NoRes
       IN reqs' = [reqs EXCEPT ![r].ran = TRUE, ![r].res = res,
                               ![r].queried = reachedStore(reqs[r].userId = ""
                                                             \/ ~updateProfileSchema(b)),
                               ![r].pc = IF res = NoRes THEN "update" ELSE "done"]
    /\ UNCHANGED <<env, now, tokens, users, nextId, nextDoc, ratings, favorites, comments, catalog, hist>>

UpdateUserProfile2(r) ==
    /\ reqs[r].op = "updateUserProfile" /\ reqs[r].pc = "update"
    /\ LET id == reqs[r].userId IN
       IF ~\E u \in users : u.id = id
       THEN /\ reqs' = [reqs EXCEPT ![r].res = Err(404, "User not found."), ![r].pc = "done"]
            /\ users' = users
       ELSE LET old == CHOOSE u \in users : u.id = id
                new == applyUpdate(old, reqs[r].body)
            IN IF DuplicateKey(users, id, new.email)
               THEN /\ reqs' = [reqs EXCEPT ![r].res = Err(500, "Please try again later."),
                                            ![r].pc = "done"]
                    /\ users' = users
               ELSE /\ users' = (users \ {old}) \cup {new}
                    /\ reqs' = [reqs EXCEPT
                                  ![r].res = Res(200, [message |-> "Updated profile.",
                                                       user |-> UserView(new)]),
                                  ![r].pc = "done"]
    /\ UNCHANGED <<env, now, tokens, nextId, nextDoc, ratings, favorites, comments, catalog, hist>>

(***************************************************************************)
(* The account routes.  Clients send the bodies below; as Authorization    *)
(* they send nothing or a token a login has returned.                      *)
(***************************************************************************)
Reg(email, password) ==
    [firstName |-> "Ana", lastName |-> "Ruiz", age |-> 20, email |-> email,
     password |-> password, confirmPassword |-> password]

RegisterBodies ==
    {Reg(e, p) : e \in {"a@x", "A@x", "b@x"}, p \in StrongPasswords}
    \cup {[Reg("b@x", "Abcd1234!") EXCEPT !.firstName = " Ana "],
          [Reg("b@x", "Abcd1234!") EXCEPT !.firstName = ""],
          [Reg("b@x", "Abcd1234!") EXCEPT !.age = 12],
          [Reg("b@x", "Abcd1234!") EXCEPT !.confirmPassword = "Wxyz9876!"],
          Reg("nope", "Abcd1234!"),
          Reg("b@x", "short")}

LoginBodies ==
    [email : {"a@x", "A@x", "b@x"}, password : StrongPasswords \cup {""}]
    \cup {[email |-> "nope", password |-> "Abcd1234!"]}

UpdateBodies ==
    {[email |-> "A@x"], [email |-> "b@x"], [email |-> "B@x"], [email |-> "nope"],
     [firstName |-> "Eva"], [age |-> 12], [lastName |-> "Paz", age |-> 30]}

ClientHeaders == {NoHeader} \cup {Header(<<"Bearer", t>>) : t \in tokens}

Registering == {r \in Slots : reqs[r].op = "registerUser"}

\* Slots are interchangeable: a request takes the lowest free one
FreeSlot(r, S) == reqs[r].pc = "idle" /\ \A q \in S : q < r => reqs[q].pc # "idle"

ArriveRegister(r, b) ==
    /\ Cardinality(users) + Cardinality(Registering) < MaxAccounts
    /\ Arrive(r, "registerUser", NoHeader, "none", b)
    /\ UNCHANGED <<env, now, tokens, users, nextId, nextDoc, ratings, favorites, comments, catalog, hist>>

ArriveLogin(r, b) ==
    /\ Arrive(r, "loginUser", NoHeader, "none", b)
    /\ UNCHANGED <<env, now, tokens, users, nextId, nextDoc, ratings, favorites, comments, catalog, hist>>

ArriveProfile(r, hdr) ==
    /\ Arrive(r, "getUserProfile", hdr, "none", NoBody)
    /\ UNCHANGED <<env, now, tokens, users, nextId, nextDoc, ratings, favorites, comments, catalog, hist>>

ArriveUpdate(r, hdr, b) ==
    /\ Arrive(r, "updateUserProfile", hdr, "none", b)
    /\ UNCHANGED <<env, now, tokens, users, nextId, nextDoc, ratings, favorites, comments, catalog, hist>>

ProductionEnv == [JWT_SECRET |-> "s3cr3t", JWT_EXPIRES_IN |-> 0, NODE_ENV |-> "production"]

InitUsers ==
    /\ env = ProductionEnv
    /\ now = 0
    /\ tokens = {}
    /\ users = {}
    /\ nextId = 1
    /\ nextDoc = 1
    /\ ratings = {}
    /\ favorites = {}
    /\ comments = {}
    /\ movies = {}
    /\ dbUp = TRUE
    /\ cache = <<>>
    /\ fetches = 0
    /\ reqs = [r \in Slots |-> IdleReq]
    /\ hist = {}

(***************************************************************************)
(* One client that waits for each response before it sends the next        *)
(* request.                                                                *)
(***************************************************************************)
NextAccount ==
    \/ \E r \in GateSlots, b \in RegisterBodies : ArriveRegister(r, b)
    \/ \E r \in GateSlots, b \in LoginBodies : ArriveLogin(r, b)
    \/ \E r \in GateSlots, h \in ClientHeaders : ArriveProfile(r, h)
    \/ \E r \in GateSlots, h \in ClientHeaders, b \in UpdateBodies : ArriveUpdate(r, h, b)
    \/ \E r \in GateSlots : Authenticate(r)
    \/ \E r \in GateSlots : RegisterUser1(r)
    \/ \E r \in GateSlots : RegisterUser2(r)
    \/ \E r \in GateSlots : LoginUser(r)
    \/ \E r \in GateSlots : GetUserProfile(r)
    \/ \E r \in GateSlots : UpdateUserProfile1(r)
    \/ \E r \in GateSlots : UpdateUserProfile2(r)
    \/ \E r \in GateSlots : Finish(r)

SpecAccount == InitUsers /\ [][NextAccount]_vars

(***************************************************************************)
(* Concurrent clients: registrations and email changes in flight together, *)
(* interleaved at their awaits.                                            *)
(***************************************************************************)
RaceRegisterBodies == {Reg(e, "Abcd1234!") : e \in {"a@x", "A@x", "b@x"}}
RaceLoginBodies == {[email |-> e, password |-> "Abcd1234!"] : e \in {"a@x", "b@x"}}
RaceUpdateBodies == {[email |-> "A@x"], [email |-> "b@x"], [firstName |-> "Eva"]}

NextUsers ==
    \/ \E r \in Slots, b \in RaceRegisterBodies : FreeSlot(r, Slots) /\ ArriveRegister(r, b)
    \/ \E r \in Slots, b \in RaceLoginBodies : FreeSlot(r, Slots) /\ ArriveLogin(r, b)
    \/ \E r \in Slots, h \in ClientHeaders, b \in RaceUpdateBodies :
          FreeSlot(r, Slots) /\ ArriveUpdate(r, h, b)
    \/ \E r \in Slots : Authenticate(r)
    \/ \E r \in Slots : RegisterUser1(r)
    \/ \E r \in Slots : RegisterUser2(r)
    \/ \E r \in Slots : LoginUser(r)
    \/ \E r \in Slots : UpdateUserProfile1(r)
    \/ \E r \in Slots : UpdateUserProfile2(r)
    \/ \E r \in Slots : Finish(r)

SpecUsers == InitUsers /\ [][NextUsers]_vars

(***************************************************************************)
(* Ratings (controllers/ratingsController.ts, models/Rating.ts).  A rating *)
(* is [id, userId, movieId, rating].  addRating suspends at its two awaits *)
(* (findOne, save); loc holds what findOne returned.                       *)
(***************************************************************************)
Movies == {"m1", "m2"}

SamePair(x, userId, movieId) == x.userId = userId /\ x.movieId = movieId

findOneRating_none(rs, userId, movieId) == Null

\* Rating.findOne({ userId, movieId })
findOneRating(rs, userId, movieId) ==
    IF \E x \in rs : SamePair(x, userId, movieId)
    THEN CHOOSE x \in rs : SamePair(x, userId, movieId)
    ELSE Null

insertRating_noIndex(rs, doc) == [threw |-> FALSE, rs |-> rs \cup {doc}]

\* newRating.save(): the unique index on (userId, movieId) rejects a second
\* document for the pair
insertRating(rs, doc) ==
    IF \E x \in rs : SamePair(x, doc.userId, doc.movieId)
    THEN [threw |-> TRUE, rs |-> rs]
    ELSE [threw |-> FALSE, rs |-> rs \cup {doc}]

\* existing.save(): writes the changed field to the stored document with this
\* _id; nothing is written when the value did not change
saveRating(rs, doc, rating) ==
    IF doc.rating = rating THEN [threw |-> FALSE, rs |-> rs]
    ELSE IF \E x \in rs : x.id = doc.id
    THEN [threw |-> FALSE,
          rs |-> {IF x.id = doc.id THEN [x EXCEPT !.rating = rating] ELSE x : x \in rs}]
    ELSE [threw |-> TRUE, rs |-> rs]

\* !movieId || rating === undefined
MissingRatingFields(b) ==
    \/ ~Has(b, "movieId") \/ ~Has(b, "rating")
    \/ b.movieId = ""

\* A number of a JSON body is kept as twice its value, so that 3.5 is the
\* integer 7: Stars(n) is the whole number n
Stars(n) == 2 * n

IsInteger(x) == x % 2 = 0

RatingOutOfRange(b) == b.rating < Stars(1) \/ b.rating > Stars(5)

Msg(status, msg) == [status |-> status, body |-> [message |-> msg]]

\* addRating up to its first await: validation, then Rating.findOne
AddRating1(r) ==
    /\ reqs[r].op = "addRating" /\ reqs[r].pc = "handler"
    /\ LET b == reqs[r].body IN
       IF MissingRatingFields(b)
       THEN reqs' = [reqs EXCEPT ![r].queried = reachedStore(TRUE), ![r].ran = TRUE, ![r].pc = "done",
                        ![r].res = Msg(400, "Missing required fields: movieId, rating")]
       ELSE IF RatingOutOfRange(b)
       THEN reqs' = [reqs EXCEPT ![r].queried = reachedStore(TRUE), ![r].ran = TRUE, ![r].pc = "done",
                        ![r].res = Msg(400, "Rating must be between 1 and 5")]
       ELSE reqs' = [reqs EXCEPT ![r].queried = reachedStore(FALSE), ![r].ran = TRUE, ![r].pc = "save",
                        ![r].loc = findOneRating(ratings, reqs[r].userId, b.movieId)]
    /\ UNCHANGED <<env, now, tokens, users, nextId, nextDoc, ratings, favorites, comments, catalog, hist>>

\* addRating from the findOne to its response: existing.save() or
\* newRating.save(); a throw is caught and answered 500
AddRating2(r) ==
    /\ reqs[r].op = "addRating" /\ reqs[r].pc = "save"
    /\ LET b == reqs[r].body
           existing == reqs[r].loc
       IN
       IF existing # Null
       THEN LET out == saveRating(ratings, existing, b.rating) IN
            /\ ratings' = out.rs
            /\ reqs' = [reqs EXCEPT ![r].pc = "done",
                           ![r].res = IF out.threw
                                      THEN Msg(500, "Failed to save rating")
                                      ELSE Res(200, [message |-> <<"Rating updated: ", b.rating, " stars">>,
                                                    rating |-> [existing EXCEPT !.rating = b.rating]])]
            /\ UNCHANGED <<nextDoc, hist>>
       ELSE LET newRating == [id |-> nextDoc, userId |-> reqs[r].userId,
                              movieId |-> b.movieId, rating |-> b.rating]
                out == insertRating(ratings, newRating)
            IN
            /\ ratings' = out.rs
            /\ nextDoc' = nextDoc + 1
            /\ hist' = IF out.threw THEN hist ELSE hist \cup {newRating}
            /\ reqs' = [reqs EXCEPT ![r].pc = "done",
                           ![r].res = IF out.threw
                                      THEN Msg(500, "Failed to save rating")
                                      ELSE Res(201, [message |-> <<"Rating created: ", b.rating, " stars">>,
                                                    rating |-> newRating])]
    /\ UNCHANGED <<env, now, tokens, users, nextId, favorites, comments, catalog>>

RatingBodies ==
    {[movieId |-> m, rating |-> Stars(n)] : m \in Movies, n \in {0, 1, 3, 5, 6}}
    \cup {[movieId |-> "m1"], [rating |-> Stars(3)], [movieId |-> "", rating |-> Stars(3)]}

AddingRating == {r \in Slots : reqs[r].op = "addRating"}

\* The caller already has a document for the movie of this body
HasPair(coll, hdr, b) ==
    /\ hdr.present /\ Has(b, "movieId")
    /\ \E x \in coll : SamePair(x, hdr.parts[2].id, b.movieId)

\* A request that may create a document arrives only while the collection
\* has room for it
ArriveRating(r, hdr, b) ==
    /\ nextDoc + Cardinality(AddingRating) <= MaxRatings \/ HasPair(ratings, hdr, b)
    /\ Arrive(r, "addRating", hdr, "none", b)
    /\ UNCHANGED <<env, now, tokens, users, nextId, nextDoc, ratings, favorites, comments, catalog, hist>>

\* One client at a time
NextRatings ==
    \/ \E a \in GateAccounts : IssueToken(a)
    \/ \E r \in GateSlots, h \in ClientHeaders, b \in RatingBodies : ArriveRating(r, h, b)
    \/ \E r \in GateSlots : Authenticate(r)
    \/ \E r \in GateSlots : AddRating1(r)
    \/ \E r \in GateSlots : AddRating2(r)
    \/ \E r \in GateSlots : Finish(r)

SpecRatings == InitUsers /\ [][NextRatings]_vars

RaceRatingBodies == {[movieId |-> "m1", rating |-> Stars(3)], [movieId |-> "m1", rating |-> Stars(5)],
                     [movieId |-> "m2", rating |-> Stars(3)]}

\* Requests in flight together, interleaved at their awaits
NextRatingsRace ==
    \/ \E a \in GateAccounts : IssueToken(a)
    \/ \E r \in Slots, h \in ClientHeaders, b \in RaceRatingBodies :
          FreeSlot(r, Slots) /\ ArriveRating(r, h, b)
    \/ \E r \in Slots : Authenticate(r)
    \/ \E r \in Slots : AddRating1(r)
    \/ \E r \in Slots : AddRating2(r)
    \/ \E r \in Slots : Finish(r)

SpecRatingsRace == InitUsers /\ [][NextRatingsRace]_vars

(***************************************************************************)
(* Favorites (controllers/favoritesController.ts, models/Favorite.ts).  A  *)
(* favorite is [id, userId, movieId, title, poster, note]; the schema      *)
(* declares no unique index.                                               *)
(***************************************************************************)
findOneFavorite_none(fs, userId, movieId) == Null

\* Favorite.findOne({ userId, movieId })
findOneFavorite(fs, userId, movieId) ==
    IF \E x \in fs : SamePair(x, userId, movieId)
    THEN CHOOSE x \in fs : SamePair(x, userId, movieId)
    ELSE Null

\* !movieId || !title || !poster
MissingFavoriteFields(b) ==
    \/ ~Has(b, "movieId") \/ ~Has(b, "title") \/ ~Has(b, "poster")
    \/ b.movieId = "" \/ b.title = "" \/ b.poster = ""

\* note || ""
NoteOf(b) == IF Has(b, "note") THEN b.note ELSE ""

\* addFavorite up to its first await: the checks, then Favorite.findOne
AddFavorite1(r) ==
    /\ reqs[r].op = "addFavorite" /\ reqs[r].pc = "handler"
    /\ LET b == reqs[r].body
           existing == findOneFavorite(favorites, reqs[r].userId, b.movieId)
       IN
       IF reqs[r].userId = ""
       THEN reqs' = [reqs EXCEPT ![r].queried = reachedStore(TRUE), ![r].ran = TRUE, ![r].pc = "done",
                        ![r].res = Msg(401, "User not authenticated")]
       ELSE IF MissingFavoriteFields(b)
       THEN reqs' = [reqs EXCEPT ![r].queried = reachedStore(TRUE), ![r].ran = TRUE, ![r].pc = "done",
                        ![r].res = Msg(400, "Missing required fields: movieId, title, poster")]
       ELSE IF existing # Null
       THEN reqs' = [reqs EXCEPT ![r].queried = reachedStore(FALSE), ![r].ran = TRUE, ![r].pc = "done",
                        ![r].res = Msg(409, "This movie is already in your favorites")]
       ELSE reqs' = [reqs EXCEPT ![r].queried = reachedStore(FALSE), ![r].ran = TRUE, ![r].pc = "save"]
    /\ UNCHANGED <<env, now, tokens, users, nextId, nextDoc, ratings, favorites, comments, catalog, hist>>

\* addFavorite from the findOne to its response: newFavorite.save()
AddFavorite2(r) ==
    /\ reqs[r].op = "addFavorite" /\ reqs[r].pc = "save"
    /\ LET b == reqs[r].body
           newFavorite == [id |-> nextDoc, userId |-> reqs[r].userId,
                           movieId |-> b.movieId, title |-> b.title,
                           poster |-> b.poster, note |-> NoteOf(b)]
       IN
       /\ favorites' = favorites \cup {newFavorite}
       /\ nextDoc' = nextDoc + 1
       /\ hist' = hist \cup {newFavorite}
       /\ reqs' = [reqs EXCEPT ![r].pc = "done", ![r].res = Res(201, newFavorite)]
    /\ UNCHANGED <<env, now, tokens, users, nextId, ratings, comments, catalog>>

Fav(m, t) == [movieId |-> m, title |-> t, poster |-> "p.png"]

FavoriteBodies ==
    {Fav(m, t) : m \in Movies, t \in {"T1", "T2"}}
    \cup {[movieId |-> "m1", title |-> "T1", poster |-> "p.png", note |-> "seen"],
          [movieId |-> "m1", title |-> "T1"], [title |-> "T1", poster |-> "p.png"],
          [movieId |-> "m1", title |-> "", poster |-> "p.png"]}

AddingFavorite == {r \in Slots : reqs[r].op = "addFavorite"}

ArriveFavorite(r, hdr, b) ==
    /\ nextDoc + Cardinality(AddingFavorite) <= MaxFavorites \/ HasPair(favorites, hdr, b)
    /\ Arrive(r, "addFavorite", hdr, "none", b)
    /\ UNCHANGED <<env, now, tokens, users, nextId, nextDoc, ratings, favorites, comments, catalog, hist>>

\* One client at a time
NextFavorites ==
    \/ \E a \in GateAccounts : IssueToken(a)
    \/ \E r \in GateSlots, h \in ClientHeaders, b \in FavoriteBodies : ArriveFavorite(r, h, b)
    \/ \E r \in GateSlots : Authenticate(r)
    \/ \E r \in GateSlots : AddFavorite1(r)
    \/ \E r \in GateSlots : AddFavorite2(r)
    \/ \E r \in GateSlots : Finish(r)

SpecFavorites == InitUsers /\ [][NextFavorites]_vars

RaceFavoriteBodies == {Fav("m1", "T1"), Fav("m1", "T2"), Fav("m2", "T1")}

\* Requests in flight together, interleaved at their awaits
NextFavoritesRace ==
    \/ \E a \in GateAccounts : IssueToken(a)
    \/ \E r \in Slots, h \in ClientHeaders, b \in RaceFavoriteBodies :
          FreeSlot(r, Slots) /\ ArriveFavorite(r, h, b)
    \/ \E r \in Slots : Authenticate(r)
    \/ \E r \in Slots : AddFavorite1(r)
    \/ \E r \in Slots : AddFavorite2(r)
    \/ \E r \in Slots : Finish(r)

SpecFavoritesRace == InitUsers /\ [][NextFavoritesRace]_vars

(***************************************************************************)
(* Path parameters that name a document.  A parameter is an ObjectId       *)
(* string (valid, standing for document n) or some other string; casting   *)
(* the latter to an _id throws a CastError.                                *)
(***************************************************************************)
Oid(n) == [valid |-> TRUE, n |-> n]
NotOid == [valid |-> FALSE, n |-> 0]

DocIds == 1..MaxComments

IdParams == {[id |-> Oid(n)] : n \in DocIds} \cup {[id |-> NotOid]}

(***************************************************************************)
(* Owner-only changes of favorites (controllers/favoritesController.ts).   *)
(***************************************************************************)
findOneFavoriteById_anyOwner(fs, id, userId) ==
    IF \E x \in fs : x.id = id.n
    THEN CHOOSE x \in fs : x.id = id.n
    ELSE Null

\* Favorite.findOne({ _id: id, userId })
findOneFavoriteById(fs, id, userId) ==
    IF \E x \in fs : x.id = id.n /\ x.userId = userId
    THEN CHOOSE x \in fs : x.id = id.n /\ x.userId = userId
    ELSE Null

\* favorite.save(): writes the changed note to the stored document with this
\* _id; nothing is written when the note did not change
saveFavorite(fs, doc, note) ==
    IF doc.note = note THEN [threw |-> FALSE, fs |-> fs]
    ELSE IF \E x \in fs : x.id = doc.id
    THEN [threw |-> FALSE,
          fs |-> {IF x.id = doc.id THEN [x EXCEPT !.note = note] ELSE x : x \in fs}]
    ELSE [threw |-> TRUE, fs |-> fs]

\* updateFavoriteNote up to its first await: the checks, then Favorite.findOne
UpdateFavoriteNote1(r) ==
    /\ reqs[r].op = "updateFavoriteNote" /\ reqs[r].pc = "handler"
    /\ LET id == reqs[r].params.id
           favorite == findOneFavoriteById(favorites, id, reqs[r].userId)
       IN
       IF reqs[r].userId = ""
       THEN reqs' = [reqs EXCEPT ![r].ran = TRUE, ![r].pc = "done",
                        ![r].res = Msg(401, "User not authenticated")]
       ELSE IF ~id.valid
       THEN reqs' = [reqs EXCEPT ![r].ran = TRUE, ![r].pc = "done",
                        ![r].res = Msg(500, "Failed to update favorite")]
       ELSE IF favorite = Null
       THEN reqs' = [reqs EXCEPT ![r].ran = TRUE, ![r].pc = "done",
                        ![r].res = Msg(404, "Favorite not found")]
       ELSE reqs' = [reqs EXCEPT ![r].ran = TRUE, ![r].pc = "save", ![r].loc = favorite]
    /\ UNCHANGED <<env, now, tokens, users, nextId, nextDoc, ratings, favorites, comments, catalog, hist>>

\* updateFavoriteNote from the findOne to its response: favorite.save()
UpdateFavoriteNote2(r) ==
    /\ reqs[r].op = "updateFavoriteNote" /\ reqs[r].pc = "save"
    /\ LET favorite == reqs[r].loc
           note == NoteOf(reqs[r].body)
           out == saveFavorite(favorites, favorite, note)
       IN
       /\ favorites' = out.fs
       /\ reqs' = [reqs EXCEPT ![r].pc = "done",
                      ![r].res = IF out.threw
                                 THEN Msg(500, "Failed to update favorite")
                                 ELSE Res(200, [message |-> "Favorite updated successfully",
                                               favorite |-> [favorite EXCEPT !.note = note]])]
    /\ UNCHANGED <<env, now, tokens, users, nextId, nextDoc, ratings, comments, catalog, hist>>

\* removeFavorite: Favorite.findOneAndDelete({ userId, movieId })
RemoveFavorite(r) ==
    /\ reqs[r].op = "removeFavorite" /\ reqs[r].pc = "handler"
    /\ LET movieId == reqs[r].params.movieId
           deleted == findOneFavorite(favorites, reqs[r].userId, movieId)
       IN
       IF reqs[r].userId = ""
       THEN /\ reqs' = [reqs EXCEPT ![r].ran = TRUE, ![r].pc = "done",
                           ![r].res = Msg(401, "User not authenticated")]
            /\ UNCHANGED favorites
       ELSE IF deleted = Null
       THEN /\ reqs' = [reqs EXCEPT ![r].ran = TRUE, ![r].pc = "done",
                           ![r].res = Msg(404, "Movie not found or already removed")]
            /\ UNCHANGED favorites
       ELSE /\ favorites' = favorites \ {deleted}
            /\ reqs' = [reqs EXCEPT ![r].ran = TRUE, ![r].pc = "done",
                           ![r].res = Res(200, [message |-> "Movie removed from favorites successfully",
                                               removedMovie |-> [movieId |-> deleted.movieId,
                                                                 title |-> deleted.title]])]
    /\ UNCHANGED <<env, now, tokens, users, nextId, nextDoc, ratings, comments, catalog, hist>>

(***************************************************************************)
(* Comments (controllers/commentController.ts, models/Comment.ts).  A      *)
(* comment is [id, userId, movieId, text, updatedAt].                      *)
(***************************************************************************)
\* text: maxlength 500
TooLong(text) == text = "LONG"

\* !text || !movieId
MissingCommentFields(b) ==
    \/ ~Has(b, "text") \/ ~Has(b, "movieId")
    \/ b.text = "" \/ b.movieId = ""

\* createComment: Comment.create({ userId, movieId, text }); a validation
\* error of the schema is caught and answered 500
CreateComment(r) ==
    /\ reqs[r].op = "createComment" /\ reqs[r].pc = "handler"
    /\ LET b == reqs[r].body IN
       IF MissingCommentFields(b)
       THEN /\ reqs' = [reqs EXCEPT ![r].queried = reachedStore(TRUE), ![r].ran = TRUE, ![r].pc = "done",
                           ![r].res = Msg(400, "Faltan campos requeridos")]
            /\ UNCHANGED <<comments, nextDoc>>
       ELSE IF TooLong(trim(b.text))
       THEN /\ reqs' = [reqs EXCEPT ![r].queried = reachedStore(FALSE), ![r].ran = TRUE, ![r].pc = "done",
                           ![r].res = Msg(500, "Error al crear el comentario")]
            /\ UNCHANGED <<comments, nextDoc>>
       ELSE LET comment == [id |-> nextDoc, userId |-> reqs[r].userId,
                            movieId |-> b.movieId, text |-> trim(b.text),
                            updatedAt |-> now]
            IN
            /\ comments' = comments \cup {comment}
            /\ nextDoc' = nextDoc + 1
            /\ reqs' = [reqs EXCEPT ![r].queried = reachedStore(FALSE), ![r].ran = TRUE, ![r].pc = "done",
                           ![r].res = Res(201, comment)]
    /\ UNCHANGED <<env, now, tokens, users, nextId, ratings, favorites, catalog, hist>>

\* The filter { _id: id, userId }
OwnComment(x, id, userId) == x.id = id.n /\ x.userId = userId

AnyComment(x, id, userId) == x.id = id.n

findOneAndUpdateComment_anyOwner(cs, id, userId, b, t) ==
    IF \E x \in cs : AnyComment(x, id, userId)
    THEN LET x == CHOOSE x \in cs : AnyComment(x, id, userId)
             y == [x EXCEPT !.text = IF Has(b, "text") THEN trim(b.text) ELSE @,
                            !.updatedAt = t]
         IN [doc |-> y, cs |-> (cs \ {x}) \cup {y}]
    ELSE [doc |-> Null, cs |-> cs]

\* the whole body is the update document
findOneAndUpdateComment_wholeBody(cs, id, userId, b, t) ==
    IF \E x \in cs : OwnComment(x, id, userId)
    THEN LET x == CHOOSE x \in cs : OwnComment(x, id, userId)
             y == [x EXCEPT !.text = IF Has(b, "text") THEN trim(b.text) ELSE @,
                            !.movieId = IF Has(b, "movieId") THEN b.movieId ELSE @,
                            !.userId = IF Has(b, "userId") THEN b.userId ELSE @,
                            !.updatedAt = t]
         IN [doc |-> y, cs |-> (cs \ {x}) \cup {y}]
    ELSE [doc |-> Null, cs |-> cs]

\* Comment.findOneAndUpdate({ _id: id, userId }, { text, updatedAt: new Date() },
\* { new: true }): an undefined text is left out of the update
findOneAndUpdateComment(cs, id, userId, b, t) ==
    IF \E x \in cs : OwnComment(x, id, userId)
    THEN LET x == CHOOSE x \in cs : OwnComment(x, id, userId)
             y == [x EXCEPT !.text = IF Has(b, "text") THEN trim(b.text) ELSE @,
                            !.updatedAt = t]
         IN [doc |-> y, cs |-> (cs \ {x}) \cup {y}]
    ELSE [doc |-> Null, cs |-> cs]

\* Comment.findOneAndDelete({ _id: id, userId })
findOneAndDeleteComment(cs, id, userId) ==
    IF \E x \in cs : OwnComment(x, id, userId)
    THEN LET x == CHOOSE x \in cs : OwnComment(x, id, userId)
         IN [doc |-> x, cs |-> cs \ {x}]
    ELSE [doc |-> Null, cs |-> cs]

UpdateComment(r) ==
    /\ reqs[r].op = "updateComment" /\ reqs[r].pc = "handler"
    /\ LET id == reqs[r].params.id
           out == findOneAndUpdateComment(comments, id, reqs[r].userId, reqs[r].body, now)
       IN
       IF ~id.valid
       THEN /\ reqs' = [reqs EXCEPT ![r].ran = TRUE, ![r].pc = "done",
                           ![r].res = Msg(500, "Error al actualizar comentario")]
            /\ UNCHANGED comments
       ELSE IF out.doc = Null
       THEN /\ reqs' = [reqs EXCEPT ![r].ran = TRUE, ![r].pc = "done",
                           ![r].res = Msg(404, "Comentario no encontrado o no autorizado")]
            /\ UNCHANGED comments
       ELSE /\ comments' = out.cs
            /\ reqs' = [reqs EXCEPT ![r].ran = TRUE, ![r].pc = "done",
                           ![r].res = Res(200, out.doc)]
    /\ UNCHANGED <<env, now, tokens, users, nextId, nextDoc, ratings, favorites, catalog, hist>>

DeleteComment(r) ==
    /\ reqs[r].op = "deleteComment" /\ reqs[r].pc = "handler"
    /\ LET id == reqs[r].params.id
           out == findOneAndDeleteComment(comments, id, reqs[r].userId)
       IN
       IF ~id.valid
       THEN /\ reqs' = [reqs EXCEPT ![r].ran = TRUE, ![r].pc = "done",
                           ![r].res = Msg(500, "Error al eliminar comentario")]
            /\ UNCHANGED comments
       ELSE IF out.doc = Null
       THEN /\ reqs' = [reqs EXCEPT ![r].ran = TRUE, ![r].pc = "done",
                           ![r].res = Msg(404, "Comentario no encontrado o no autorizado")]
            /\ UNCHANGED comments
       ELSE /\ comments' = out.cs
            /\ reqs' = [reqs EXCEPT ![r].ran = TRUE, ![r].pc = "done",
                           ![r].res = Msg(200, "Comentario eliminado correctamente")]
    /\ UNCHANGED <<env, now, tokens, users, nextId, nextDoc, ratings, favorites, catalog, hist>>

(***************************************************************************)
(* One client at a time creating, changing and removing favorites and      *)
(* comments under the tokens of two accounts.                              *)
(***************************************************************************)
CommentBodies ==
    {[movieId |-> "m1", text |-> " hi "], [movieId |-> "m1", text |-> "LONG"],
     [movieId |-> "m1"], [text |-> "hi"]}

CommentEdits == {[text |-> "bye"], [none |-> TRUE]}

NoteBodies == {[note |-> "seen"], [none |-> TRUE]}

OwnedFavoriteBodies == {Fav("m1", "T1"), Fav("m2", "T1")}

ArriveCreateComment(r, hdr, b) ==
    /\ nextDoc <= MaxComments
    /\ Arrive(r, "createComment", hdr, "none", b)
    /\ UNCHANGED <<env, now, tokens, users, nextId, nextDoc, ratings, favorites, comments, catalog, hist>>

ArriveOwned(r, op, hdr, params, b) ==
    /\ ArriveAt(r, op, hdr, params, b)
    /\ UNCHANGED <<env, now, tokens, users, nextId, nextDoc, ratings, favorites, comments, catalog, hist>>

MovieParams == {[movieId |-> m] : m \in Movies}

NextOwned ==
    \/ \E a \in GateAccounts : IssueToken(a)
    \/ \E r \in GateSlots, h \in ClientHeaders, b \in OwnedFavoriteBodies : ArriveFavorite(r, h, b)
    \/ \E r \in GateSlots, h \in ClientHeaders, b \in CommentBodies : ArriveCreateComment(r, h, b)
    \/ \E r \in GateSlots, h \in ClientHeaders, p \in IdParams, b \in CommentEdits :
          ArriveOwned(r, "updateComment", h, p, b)
    \/ \E r \in GateSlots, h \in ClientHeaders, p \in IdParams :
          ArriveOwned(r, "deleteComment", h, p, NoBody)
    \/ \E r \in GateSlots, h \in ClientHeaders, p \in IdParams, b \in NoteBodies :
          ArriveOwned(r, "updateFavoriteNote", h, p, b)
    \/ \E r \in GateSlots, h \in ClientHeaders, p \in MovieParams :
          ArriveOwned(r, "removeFavorite", h, p, NoBody)
    \/ \E r \in GateSlots : Authenticate(r)
    \/ \E r \in GateSlots : AddFavorite1(r)
    \/ \E r \in GateSlots : AddFavorite2(r)
    \/ \E r \in GateSlots : UpdateFavoriteNote1(r)
    \/ \E r \in GateSlots : UpdateFavoriteNote2(r)
    \/ \E r \in GateSlots : RemoveFavorite(r)
    \/ \E r \in GateSlots : CreateComment(r)
    \/ \E r \in GateSlots : UpdateComment(r)
    \/ \E r \in GateSlots : DeleteComment(r)
    \/ \E r \in GateSlots : Finish(r)

SpecOwned == InitUsers /\ [][NextOwned]_vars

\* Comments only: texts within and beyond the limit, created and edited
LengthEdits == {[text |-> "bye"], [text |-> "LONG"]}

NextComments ==
    \/ \E a \in GateAccounts : IssueToken(a)
    \/ \E r \in GateSlots, h \in ClientHeaders, b \in CommentBodies : ArriveCreateComment(r, h, b)
    \/ \E r \in GateSlots, h \in ClientHeaders, p \in IdParams, b \in LengthEdits :
          ArriveOwned(r, "updateComment", h, p, b)
    \/ \E r \in GateSlots : Authenticate(r)
    \/ \E r \in GateSlots : CreateComment(r)
    \/ \E r \in GateSlots : UpdateComment(r)
    \/ \E r \in GateSlots : Finish(r)

SpecComments == InitUsers /\ [][NextComments]_vars

(***************************************************************************)
(* Owner-only changes of ratings (controllers/ratingsController.ts).       *)
(***************************************************************************)
\* Rating.findById(id)
findRatingById(rs, id) ==
    IF \E x \in rs : x.id = id.n
    THEN CHOOSE x \in rs : x.id = id.n
    ELSE Null

NotOwner_never(existing, userId) == FALSE

\* existing.userId.toString() !== userId
NotOwner(existing, userId) == existing.userId # userId

\* rating < 1 || rating > 5, where an undefined rating compares false
UpdateOutOfRange(b) == Has(b, "rating") /\ RatingOutOfRange(b)

\* updateRating up to its first await: the range check, then Rating.findById
\* and the owner check
UpdateRating1(r) ==
    /\ reqs[r].op = "updateRating" /\ reqs[r].pc = "handler"
    /\ LET id == reqs[r].params.id
           existing == findRatingById(ratings, id)
       IN
       IF UpdateOutOfRange(reqs[r].body)
       THEN reqs' = [reqs EXCEPT ![r].ran = TRUE, ![r].pc = "done",
                        ![r].res = Msg(400, "Rating must be between 1 and 5")]
       ELSE IF ~id.valid
       THEN reqs' = [reqs EXCEPT ![r].ran = TRUE, ![r].pc = "done",
                        ![r].res = Msg(500, "Failed to update rating")]
       ELSE IF existing = Null
       THEN reqs' = [reqs EXCEPT ![r].ran = TRUE, ![r].pc = "done",
                        ![r].res = Msg(404, "Rating not found")]
       ELSE IF NotOwner(existing, reqs[r].userId)
       THEN reqs' = [reqs EXCEPT ![r].ran = TRUE, ![r].pc = "done",
                        ![r].res = Msg(403, "Not authorized to update this rating")]
       ELSE reqs' = [reqs EXCEPT ![r].ran = TRUE, ![r].pc = "save", ![r].loc = existing]
    /\ UNCHANGED <<env, now, tokens, users, nextId, nextDoc, ratings, favorites, comments, catalog, hist>>

\* updateRating from the owner check to its response: existing.save(), which
\* rejects a missing rating (required)
UpdateRating2(r) ==
    /\ reqs[r].op = "updateRating" /\ reqs[r].pc = "save"
    /\ LET existing == reqs[r].loc
           b == reqs[r].body
       IN
       IF ~Has(b, "rating")
       THEN /\ reqs' = [reqs EXCEPT ![r].pc = "done",
                           ![r].res = Msg(500, "Failed to update rating")]
            /\ UNCHANGED ratings
       ELSE LET out == saveRating(ratings, existing, b.rating) IN
            /\ ratings' = out.rs
            /\ reqs' = [reqs EXCEPT ![r].pc = "done",
                           ![r].res = IF out.threw
                                      THEN Msg(500, "Failed to update rating")
                                      ELSE Res(200, [message |-> "Rating updated successfully",
                                                    rating |-> [existing EXCEPT !.rating = b.rating]])]
    /\ UNCHANGED <<env, now, tokens, users, nextId, nextDoc, favorites, comments, catalog, hist>>

\* deleteRating up to its first await: Rating.findById and the owner check
DeleteRating1(r) ==
    /\ reqs[r].op = "deleteRating" /\ reqs[r].pc = "handler"
    /\ LET id == reqs[r].params.id
           existing == findRatingById(ratings, id)
       IN
       IF ~id.valid
       THEN reqs' = [reqs EXCEPT ![r].ran = TRUE, ![r].pc = "done",
                        ![r].res = Msg(500, "Failed to delete rating")]
       ELSE IF existing = Null
       THEN reqs' = [reqs EXCEPT ![r].ran = TRUE, ![r].pc = "done",
                        ![r].res = Msg(404, "Rating not found")]
       ELSE IF NotOwner(existing, reqs[r].userId)
       THEN reqs' = [reqs EXCEPT ![r].ran = TRUE, ![r].pc = "done",
                        ![r].res = Msg(403, "Not authorized to delete this rating")]
       ELSE reqs' = [reqs EXCEPT ![r].ran = TRUE, ![r].pc = "save", ![r].loc = existing]
    /\ UNCHANGED <<env, now, tokens, users, nextId, nextDoc, ratings, favorites, comments, catalog, hist>>

\* deleteRating from the owner check to its response: existing.deleteOne()
DeleteRating2(r) ==
    /\ reqs[r].op = "deleteRating" /\ reqs[r].pc = "save"
    /\ ratings' = {x \in ratings : x.id # reqs[r].loc.id}
    /\ reqs' = [reqs EXCEPT ![r].pc = "done",
                   ![r].res = Msg(200, "Rating deleted successfully")]
    /\ UNCHANGED <<env, now, tokens, users, nextId, nextDoc, favorites, comments, catalog, hist>>

RatingEdits == {[rating |-> Stars(5)], [rating |-> Stars(6)], [none |-> TRUE]}

OwnedRatingBodies == {[movieId |-> "m1", rating |-> Stars(3)], [movieId |-> "m2", rating |-> Stars(1)]}

\* One client at a time
NextRatingsOwned ==
    \/ \E a \in GateAccounts : IssueToken(a)
    \/ \E r \in GateSlots, h \in ClientHeaders, b \in OwnedRatingBodies : ArriveRating(r, h, b)
    \/ \E r \in GateSlots, h \in ClientHeaders, p \in IdParams, b \in RatingEdits :
          ArriveOwned(r, "updateRating", h, p, b)
    \/ \E r \in GateSlots, h \in ClientHeaders, p \in IdParams :
          ArriveOwned(r, "deleteRating", h, p, NoBody)
    \/ \E r \in GateSlots : Authenticate(r)
    \/ \E r \in GateSlots : AddRating1(r)
    \/ \E r \in GateSlots : AddRating2(r)
    \/ \E r \in GateSlots : UpdateRating1(r)
    \/ \E r \in GateSlots : UpdateRating2(r)
    \/ \E r \in GateSlots : DeleteRating1(r)
    \/ \E r \in GateSlots : DeleteRating2(r)
    \/ \E r \in GateSlots : Finish(r)

SpecRatingsOwned == InitUsers /\ [][NextRatingsOwned]_vars

\* the values 0.5, 3.5 and 5.5
Halves == {1, 7, 11}

ValueBodies ==
    {[movieId |-> "m1", rating |-> v] : v \in {Stars(0), Stars(3), Stars(6)} \cup Halves}
    \cup {[movieId |-> "m1"]}

ValueEdits == {[rating |-> v] : v \in {Stars(0), Stars(5), Stars(6)} \cup Halves} \cup {[none |-> TRUE]}

\* One client at a time, sending whole and fractional values
NextRatingValues ==
    \/ \E a \in GateAccounts : IssueToken(a)
    \/ \E r \in GateSlots, h \in ClientHeaders, b \in ValueBodies : ArriveRating(r, h, b)
    \/ \E r \in GateSlots, h \in ClientHeaders, p \in IdParams, b \in ValueEdits :
          ArriveOwned(r, "updateRating", h, p, b)
    \/ \E r \in GateSlots : Authenticate(r)
    \/ \E r \in GateSlots : AddRating1(r)
    \/ \E r \in GateSlots : AddRating2(r)
    \/ \E r \in GateSlots : UpdateRating1(r)
    \/ \E r \in GateSlots : UpdateRating2(r)
    \/ \E r \in GateSlots : Finish(r)

SpecRatingValues == InitUsers /\ [][NextRatingValues]_vars

(***************************************************************************)
(* Favorites, ratings and comments together: every create and every update *)
(* of the three controllers, with bodies that also carry a movieId and a   *)
(* userId of somebody else.                                                *)
(***************************************************************************)
MaxDocs == 3

DocParams == {[id |-> Oid(n)] : n \in 1..MaxDocs}

\* fields a client adds to a body to take a record over
Foreign(b) == [f \in DOMAIN b \cup {"userId"} |-> IF f = "userId" THEN "u2" ELSE b[f]]

Moved(b) ==
    [f \in DOMAIN b \cup {"userId", "movieId"} |->
        IF f = "userId" THEN "u2" ELSE IF f = "movieId" THEN "m2" ELSE b[f]]

ArriveCreating(r, op, hdr, b) ==
    /\ nextDoc <= MaxDocs \/ (op = "addRating" /\ HasPair(ratings, hdr, b))
    /\ Arrive(r, op, hdr, "none", b)
    /\ UNCHANGED <<env, now, tokens, users, nextId, nextDoc, ratings, favorites, comments, catalog, hist>>

CreatingBodies(op) ==
    IF op = "addRating"
    THEN {Foreign([movieId |-> "m1", rating |-> Stars(3)]),
          Foreign([movieId |-> "m1", rating |-> Stars(4)])}
    ELSE IF op = "addFavorite" THEN {Foreign(Fav("m1", "T1"))}
    ELSE {Foreign([movieId |-> "m1", text |-> "hi"])}

UpdatingBodies(op) ==
    IF op = "updateRating" THEN {Moved([rating |-> Stars(5)])}
    ELSE IF op = "updateFavoriteNote" THEN {Moved([note |-> "seen"])}
    ELSE {Moved([text |-> "bye"])}

\* the first account creates the records; both accounts send updates
CreatorHeaders == {h \in ClientHeaders : h.present /\ h.parts[2].id = "u1"}

NextRecords ==
    \/ \E a \in GateAccounts : IssueToken(a)
    \/ \E r \in GateSlots, h \in CreatorHeaders, op \in {"addRating", "addFavorite", "createComment"} :
          \E b \in CreatingBodies(op) : ArriveCreating(r, op, h, b)
    \/ \E r \in GateSlots, h \in ClientHeaders, p \in DocParams,
          op \in {"updateRating", "updateFavoriteNote", "updateComment"} :
          \E b \in UpdatingBodies(op) : ArriveOwned(r, op, h, p, b)
    \/ \E r \in GateSlots : Authenticate(r)
    \/ \E r \in GateSlots : AddRating1(r)
    \/ \E r \in GateSlots : AddRating2(r)
    \/ \E r \in GateSlots : AddFavorite1(r)
    \/ \E r \in GateSlots : AddFavorite2(r)
    \/ \E r \in GateSlots : CreateComment(r)
    \/ \E r \in GateSlots : UpdateRating1(r)
    \/ \E r \in GateSlots : UpdateRating2(r)
    \/ \E r \in GateSlots : UpdateFavoriteNote1(r)
    \/ \E r \in GateSlots : UpdateFavoriteNote2(r)
    \/ \E r \in GateSlots : UpdateComment(r)
    \/ \E r \in GateSlots : Finish(r)

SpecRecords == InitUsers /\ [][NextRecords]_vars

(***************************************************************************)
(* DELETE /api/users/me (controllers/userController.ts).                   *)
(***************************************************************************)
\* User.findById(req.userId).select("+password")
findByIdWithPassword(us, id) ==
    IF \E u \in us : u.id = id
    THEN WithPassword(CHOOSE u \in us : u.id = id)
    ELSE Null

\* !password
NoPassword(b) == ~Has(b, "password") \/ b.password = ""

\* deleteUserAccount up to its last await: the checks, User.findById with the
\* password selected, bcryptjs.compare
DeleteUserAccount1(r) ==
    /\ reqs[r].op = "deleteUserAccount" /\ reqs[r].pc = "handler"
    /\ LET b == reqs[r].body
           user == findByIdWithPassword(users, reqs[r].userId)
       IN
       IF reqs[r].userId = ""
       THEN reqs' = [reqs EXCEPT ![r].queried = reachedStore(TRUE), ![r].ran = TRUE, ![r].pc = "done",
                        ![r].res = Err(401, "Unauthorized")]
       ELSE IF NoPassword(b)
       THEN reqs' = [reqs EXCEPT ![r].queried = reachedStore(TRUE), ![r].ran = TRUE, ![r].pc = "done",
                        ![r].res = Err(400, "Password required.")]
       ELSE IF user = Null
       THEN reqs' = [reqs EXCEPT ![r].queried = reachedStore(FALSE), ![r].ran = TRUE, ![r].pc = "done",
                        ![r].res = Err(404, "User Not Found.")]
       ELSE IF ~bcryptCompare(b.password, user.password)
       THEN reqs' = [reqs EXCEPT ![r].queried = reachedStore(FALSE), ![r].ran = TRUE, ![r].pc = "done",
                        ![r].res = Err(401, "Incorrect password")]
       ELSE reqs' = [reqs EXCEPT ![r].queried = reachedStore(FALSE), ![r].ran = TRUE, ![r].pc = "delete"]
    /\ UNCHANGED <<env, now, tokens, users, nextId, nextDoc, ratings, favorites, comments, catalog, hist>>

\* deleteUserAccount from the password check: User.findByIdAndDelete, 204
DeleteUserAccount2(r) ==
    /\ reqs[r].op = "deleteUserAccount" /\ reqs[r].pc = "delete"
    /\ users' = {u \in users : u.id # reqs[r].userId}
    /\ reqs' = [reqs EXCEPT ![r].pc = "done", ![r].res = Res(204, NoBody)]
    /\ UNCHANGED <<env, now, tokens, nextId, nextDoc, ratings, favorites, comments, catalog, hist>>

DeleteBodies ==
    {[password |-> p] : p \in StrongPasswords} \cup {[password |-> ""], [none |-> TRUE]}

\* Accounts are registered while ObjectIds are left
ArriveRegisterNew(r, b) ==
    /\ nextId + Cardinality(Registering) <= MaxAccounts
    /\ ArriveRegister(r, b)

ArriveDelete(r, hdr, b) ==
    /\ Arrive(r, "deleteUserAccount", hdr, "none", b)
    /\ UNCHANGED <<env, now, tokens, users, nextId, nextDoc, ratings, favorites, comments, catalog, hist>>

\* One client at a time
NextDelete ==
    \/ \E r \in GateSlots, b \in RaceRegisterBodies : ArriveRegisterNew(r, b)
    \/ \E r \in GateSlots, b \in RaceLoginBodies : ArriveLogin(r, b)
    \/ \E r \in GateSlots, h \in ClientHeaders, b \in DeleteBodies : ArriveDelete(r, h, b)
    \/ \E r \in GateSlots : Authenticate(r)
    \/ \E r \in GateSlots : RegisterUser1(r)
    \/ \E r \in GateSlots : RegisterUser2(r)
    \/ \E r \in GateSlots : LoginUser(r)
    \/ \E r \in GateSlots : DeleteUserAccount1(r)
    \/ \E r \in GateSlots : DeleteUserAccount2(r)
    \/ \E r \in GateSlots : Finish(r)

SpecDelete == InitUsers /\ [][NextDelete]_vars

(***************************************************************************)
(* POST /api/users/forgot-password (controllers/userController.ts).  The   *)
(* fault of a request says whether sendMail throws for it.                 *)
(***************************************************************************)
\* crypto.randomBytes(32).toString("hex")
ResetTokens == {"rt1", "rt2"}

\* crypto.createHash("sha256").update(resetToken).digest("hex")
sha256(t) == "sha256:" \o t

\* Date.now() + 3600000, on the clock of whole hours
ResetExpires(t) == t + 1

\* forgotPassword up to its first await: User.findOne({ email })
ForgotPassword1(r) ==
    /\ reqs[r].op = "forgotPassword" /\ reqs[r].pc = "handler"
    /\ LET user == findOneByEmail(users, reqs[r].body.email) IN
       IF user = Null
       THEN reqs' = [reqs EXCEPT ![r].ran = TRUE, ![r].pc = "done",
                        ![r].res = Err(400, "There is no user with this email address.")]
       ELSE reqs' = [reqs EXCEPT ![r].ran = TRUE, ![r].pc = "save", ![r].loc = user]
    /\ UNCHANGED <<env, now, tokens, users, nextId, nextDoc, ratings, favorites, comments, catalog, hist>>

\* the catch of sendMail logs and throws nothing
sendMailThrows_swallowed(fault) == FALSE

\* sendMail rethrows what the transporter or a missing EMAIL_FROM throws
sendMailThrows(fault) == fault = "mail"

\* forgotPassword from the findOne: the token is stored hashed with its
\* expiry, then sendMail; a throw of either is answered 500
ForgotPassword2(r) ==
    /\ reqs[r].op = "forgotPassword" /\ reqs[r].pc = "save"
    /\ \E resetToken \in ResetTokens :
          LET user == reqs[r].loc
              stored == \E u \in users : u.id = user.id
          IN
          /\ users' = {IF u.id = user.id
                       THEN [u EXCEPT !.passwordResetToken = sha256(resetToken),
                                      !.passwordResetExpires = ResetExpires(now)]
                       ELSE u : u \in users}
          /\ reqs' = [reqs EXCEPT ![r].pc = "done",
                         ![r].res = IF ~stored \/ sendMailThrows(reqs[r].fault)
                                    THEN Err(500, "Error processing the request")
                                    ELSE Msg(200, "Email sent to reset password")]
    /\ UNCHANGED <<env, now, tokens, nextId, nextDoc, ratings, favorites, comments, catalog, hist>>

ForgotBodies == {[email |-> e] : e \in {"a@x", "A@x", "b@x"}}

MailFaults == {"none", "mail"}

ArriveForgot(r, b, fault) ==
    /\ Arrive(r, "forgotPassword", NoHeader, fault, b)
    /\ UNCHANGED <<env, now, tokens, users, nextId, nextDoc, ratings, favorites, comments, catalog, hist>>

NextForgot ==
    \/ \E r \in Slots, b \in RaceRegisterBodies : FreeSlot(r, Slots) /\ ArriveRegisterNew(r, b)
    \/ \E r \in Slots, b \in ForgotBodies, f \in MailFaults :
          FreeSlot(r, Slots) /\ ArriveForgot(r, b, f)
    \/ \E r \in Slots : RegisterUser1(r)
    \/ \E r \in Slots : RegisterUser2(r)
    \/ \E r \in Slots : ForgotPassword1(r)
    \/ \E r \in Slots : ForgotPassword2(r)
    \/ \E r \in Slots : Finish(r)

SpecForgot == InitUsers /\ [][NextForgot]_vars

(***************************************************************************)
(* The catalog (controllers/movieController.ts, routes/movieRoutes.ts,     *)
(* models/Movie).  No route of the router mounts authenticate.  A movie    *)
(* is [id, createdAt, title, externalId, cloudinaryPublicId]; "" stands    *)
(* for a field the document does not have.  In the catalog one step of the *)
(* clock is one minute.                                                    *)
(***************************************************************************)
MaxMovies == 2

\* the 24 hex digits of the n-th ObjectId
ObjectIdOf(n) == "oid" \o ToString(n)

\* mongoose.Types.ObjectId.isValid(id)
ObjectIdIsValid(id) == id \in {ObjectIdOf(n) : n \in 1..(MaxMovies + 1)}

\* uploadResult.public_id of the n-th upload
PublicIdOf(n) == "cld" \o ToString(n)

\* const CACHE_TTL = 60 * 1000, in minutes
CACHE_TTL == 1

\* an entry is returned whatever its expiry
getFromCache_noExpiry(c, key, t) ==
    IF key \notin DOMAIN c THEN Null ELSE c[key].data

getFromCache(c, key, t) ==
    IF key \notin DOMAIN c THEN Null
    ELSE IF t > c[key].expires THEN Null
    ELSE c[key].data

\* the cache after getFromCache(key) at time t: cache.delete(key) on an expired entry
cacheAfterRead(c, key, t) ==
    IF key \in DOMAIN c /\ t > c[key].expires
    THEN [k \in DOMAIN c \ {key} |-> c[k]]
    ELSE c

setCache(c, key, data, t) ==
    [k \in DOMAIN c \cup {key} |->
        IF k = key THEN [data |-> data, expires |-> t + CACHE_TTL] ELSE c[k]]

RECURSIVE sortByCreatedAtDesc(_)
\* .sort({ createdAt: -1 })
sortByCreatedAtDesc(ms) ==
    IF ms = {} THEN <<>>
    ELSE LET m == CHOOSE x \in ms : \A y \in ms : y.createdAt <= x.createdAt
         IN <<m>> \o sortByCreatedAtDesc(ms \ {m})

findMovieById(ms, id) ==
    IF \E m \in ms : m.id = id THEN CHOOSE m \in ms : m.id = id ELSE Null

\* Movie.findOne(filter): the first match in insertion order
firstMovie(matches) ==
    IF matches = {} THEN Null
    ELSE CHOOSE m \in matches : \A y \in matches : m.createdAt <= y.createdAt

findOneByCloudinaryPublicId(ms, id) == firstMovie({m \in ms : m.cloudinaryPublicId = id})

findOneByExternalId(ms, id) == firstMovie({m \in ms : m.externalId = id})

\* the lookup by externalId is left out
lookupMovie_noExternalId(ms, id) ==
    LET byId == IF ObjectIdIsValid(id) THEN findMovieById(ms, id) ELSE Null
    IN IF byId = Null THEN findOneByCloudinaryPublicId(ms, id) ELSE byId

\* the lookups of getMovieById, in order
lookupMovie(ms, id) ==
    LET byId == IF ObjectIdIsValid(id) THEN findMovieById(ms, id) ELSE Null
        byPublicId == IF byId = Null THEN findOneByCloudinaryPublicId(ms, id) ELSE byId
    IN IF byPublicId = Null THEN findOneByExternalId(ms, id) ELSE byPublicId

\* the update document of findByIdAndUpdate(id, req.body): the schema paths of the body
applyMovieUpdate(m, b) ==
    [m EXCEPT !.title = IF Has(b, "title") THEN trim(b.title) ELSE @,
              !.externalId = IF Has(b, "externalId") THEN b.externalId ELSE @]

UploadMovie(r) ==
    /\ reqs[r].op = "uploadMovie" /\ reqs[r].pc = "handler"
    /\ LET b == reqs[r].body IN
       IF ~b.file
       THEN /\ reqs' = [reqs EXCEPT ![r].ran = TRUE, ![r].pc = "done",
                           ![r].res = Err(400, "No video file provided")]
            /\ UNCHANGED <<movies, nextDoc>>
       ELSE IF reqs[r].fault = "cloudinary" \/ ~dbUp
       THEN /\ reqs' = [reqs EXCEPT ![r].ran = TRUE, ![r].pc = "done",
                           ![r].res = Err(500, "Error uploading movie")]
            /\ UNCHANGED <<movies, nextDoc>>
       ELSE LET movie == [id |-> ObjectIdOf(nextDoc), createdAt |-> nextDoc,
                          title |-> IF Has(b, "title") THEN trim(b.title)
                                    ELSE "Movie " \o PublicIdOf(nextDoc),
                          externalId |-> "",
                          cloudinaryPublicId |-> PublicIdOf(nextDoc)]
            IN /\ movies' = movies \cup {movie}
               /\ nextDoc' = nextDoc + 1
               /\ reqs' = [reqs EXCEPT ![r].ran = TRUE, ![r].pc = "done",
                              ![r].res = Res(201, [message |-> "Movie uploaded successfully",
                                                   data |-> movie])]
    /\ UNCHANGED <<env, now, tokens, users, nextId, ratings, favorites, comments,
                   dbUp, cache, fetches, hist>>

GetMovies(r) ==
    /\ reqs[r].op = "getMovies" /\ reqs[r].pc = "handler"
    /\ reqs' = [reqs EXCEPT ![r].ran = TRUE, ![r].pc = "done",
                   ![r].res =
                      IF ~dbUp THEN Err(500, "Error getting movies")
                      ELSE IF movies = {}
                      THEN Res(200, [message |-> "No movies available. Upload some movies to get started!",
                                     data |-> <<>>])
                      ELSE Res(200, [source |-> "cloudinary",
                                     data |-> sortByCreatedAtDesc(movies),
                                     total |-> Cardinality(movies)])]
    /\ UNCHANGED <<env, now, tokens, users, nextId, nextDoc, ratings, favorites, comments, catalog, hist>>

GetMovieById(r) ==
    /\ reqs[r].op = "getMovieById" /\ reqs[r].pc = "handler"
    /\ LET movie == lookupMovie(movies, reqs[r].params.id) IN
       reqs' = [reqs EXCEPT ![r].ran = TRUE, ![r].pc = "done",
                   ![r].res = IF ~dbUp THEN Err(500, "Error getting movie")
                              ELSE IF movie = Null THEN Err(404, "Movie not found")
                              ELSE Res(200, [source |-> "cloudinary", data |-> movie])]
    /\ UNCHANGED <<env, now, tokens, users, nextId, nextDoc, ratings, favorites, comments, catalog, hist>>

\* Movie.findByIdAndUpdate(req.params.id, req.body, { new: true }); an id that
\* is no ObjectId is a CastError
UpdateMovie(r) ==
    /\ reqs[r].op = "updateMovie" /\ reqs[r].pc = "handler"
    /\ LET id == reqs[r].params.id
           movie == findMovieById(movies, id)
       IN
       IF ~dbUp \/ ~ObjectIdIsValid(id)
       THEN /\ reqs' = [reqs EXCEPT ![r].ran = TRUE, ![r].pc = "done",
                           ![r].res = Err(500, "Error updating movie")]
            /\ UNCHANGED movies
       ELSE IF movie = Null
       THEN /\ reqs' = [reqs EXCEPT ![r].ran = TRUE, ![r].pc = "done",
                           ![r].res = Err(404, "Movie not found")]
            /\ UNCHANGED movies
       ELSE LET updated == applyMovieUpdate(movie, reqs[r].body) IN
            /\ movies' = (movies \ {movie}) \cup {updated}
            /\ reqs' = [reqs EXCEPT ![r].ran = TRUE, ![r].pc = "done",
                           ![r].res = Res(200, [message |-> "Movie updated successfully",
                                                data |-> updated])]
    /\ UNCHANGED <<env, now, tokens, users, nextId, nextDoc, ratings, favorites, comments,
                   dbUp, cache, fetches, hist>>

DeleteMovie(r) ==
    /\ reqs[r].op = "deleteMovie" /\ reqs[r].pc = "handler"
    /\ LET id == reqs[r].params.id
           movie == findMovieById(movies, id)
       IN
       IF ~dbUp \/ ~ObjectIdIsValid(id)
       THEN /\ reqs' = [reqs EXCEPT ![r].ran = TRUE, ![r].pc = "done",
                           ![r].res = Err(500, "Error deleting movie")]
            /\ UNCHANGED movies
       ELSE IF movie = Null
       THEN /\ reqs' = [reqs EXCEPT ![r].ran = TRUE, ![r].pc = "done",
                           ![r].res = Err(404, "Movie not found")]
            /\ UNCHANGED movies
       ELSE /\ movies' = movies \ {movie}
            /\ reqs' = [reqs EXCEPT ![r].ran = TRUE, ![r].pc = "done",
                           ![r].res = Msg(200, "Movie deleted successfully")]
    /\ UNCHANGED <<env, now, tokens, users, nextId, nextDoc, ratings, favorites, comments,
                   dbUp, cache, fetches, hist>>

\* The connection to the store is lost or comes back
Connectivity ==
    /\ dbUp' = ~dbUp
    /\ UNCHANGED <<env, now, tokens, users, nextId, nextDoc, ratings, favorites, comments,
                   movies, cache, fetches, reqs, hist>>

ExternalIds == {"e1", PublicIdOf(1)}

MovieIdParams ==
    {[id |-> s] : s \in {ObjectIdOf(n) : n \in 1..MaxMovies} \cup ExternalIds \cup {"zz"}}

UploadBodies == {[file |-> TRUE, title |-> " hi "], [file |-> TRUE], [file |-> FALSE]}

MovieEdits == {[title |-> "T2"]} \cup {[externalId |-> e] : e \in ExternalIds}

\* what a caller without a session sends
NoSession == {NoHeader, Header(<<"Bearer", JunkTok>>)}

ArriveUpload(r, h, b, fault) ==
    /\ nextDoc <= MaxMovies
    /\ Arrive(r, "uploadMovie", h, fault, b)
    /\ UNCHANGED <<env, now, tokens, users, nextId, nextDoc, ratings, favorites, comments, catalog, hist>>

ArriveCatalog(r, op, h, p, b) ==
    /\ ArriveAt(r, op, h, p, b)
    /\ UNCHANGED <<env, now, tokens, users, nextId, nextDoc, ratings, favorites, comments, catalog, hist>>

NextCatalog ==
    \/ Tick
    \/ Connectivity
    \/ \E r \in GateSlots, h \in NoSession, b \in UploadBodies, f \in {"none", "cloudinary"} :
          ArriveUpload(r, h, b, f)
    \/ \E r \in GateSlots, h \in NoSession : ArriveCatalog(r, "getMovies", h, NoBody, NoBody)
    \/ \E r \in GateSlots, h \in NoSession, p \in MovieIdParams :
          ArriveCatalog(r, "getMovieById", h, p, NoBody)
    \/ \E r \in GateSlots, h \in NoSession, p \in MovieIdParams, b \in MovieEdits :
          ArriveCatalog(r, "updateMovie", h, p, b)
    \/ \E r \in GateSlots, h \in NoSession, p \in MovieIdParams :
          ArriveCatalog(r, "deleteMovie", h, p, NoBody)
    \/ \E r \in GateSlots : UploadMovie(r)
    \/ \E r \in GateSlots : GetMovies(r)
    \/ \E r \in GateSlots : GetMovieById(r)
    \/ \E r \in GateSlots : UpdateMovie(r)
    \/ \E r \in GateSlots : DeleteMovie(r)
    \/ \E r \in GateSlots : Finish(r)

SpecCatalog == InitUsers /\ [][NextCatalog]_vars

(***************************************************************************)
(* The in-memory cache of movieController.ts on its own: writes, reads and *)
(* the clock (in minutes).  hist keeps, for each key, the last write.      *)
(***************************************************************************)
CacheKeys == {"popular", "search"}

CacheData == {[items |-> "d1"], [items |-> "d2"]}

SetCache(key, data) ==
    /\ cache' = setCache(cache, key, data, now)
    /\ hist' = {h \in hist : h.key # key} \cup {[key |-> key, data |-> data, at |-> now]}
    /\ UNCHANGED <<env, now, tokens, users, nextId, nextDoc, ratings, favorites, comments,
                   movies, dbUp, fetches, reqs>>

GetFromCache(key) ==
    /\ cache' = cacheAfterRead(cache, key, now)
    /\ UNCHANGED <<env, now, tokens, users, nextId, nextDoc, ratings, favorites, comments,
                   movies, dbUp, fetches, reqs, hist>>

NextCache ==
    \/ Tick
    \/ \E k \in CacheKeys, data \in CacheData : SetCache(k, data)
    \/ \E k \in CacheKeys : GetFromCache(k)

SpecCache == InitUsers /\ [][NextCache]_vars

(***************************************************************************)
(* POST /api/users/reset-password (controllers/userController.ts).  The    *)
(* clock counts whole hours.                                               *)
(***************************************************************************)
resetPasswordSchema(b) ==
    /\ Has(b, "token") /\ b.token # ""
    /\ Has(b, "newPassword") /\ b.newPassword \in StrongPasswords
    /\ Has(b, "confirmPassword") /\ b.confirmPassword = b.newPassword

\* the filter on passwordResetExpires is left out
findOneByResetToken_noExpiry(us, hashedToken, t) ==
    IF \E u \in us : u.passwordResetToken = hashedToken
    THEN CHOOSE u \in us : u.passwordResetToken = hashedToken
    ELSE Null

\* User.findOne({ passwordResetToken: hashedToken, passwordResetExpires: { $gt: new Date() } })
\*     .select("+passwordResetToken +passwordResetExpires +password")
findOneByResetToken(us, hashedToken, t) ==
    LET live == {u \in us : u.passwordResetToken = hashedToken /\ u.passwordResetExpires > t}
    IN IF live = {} THEN Null ELSE CHOOSE u \in live : TRUE

\* resetPassword up to its findOne
ResetPassword1(r) ==
    /\ reqs[r].op = "resetPassword" /\ reqs[r].pc = "handler"
    /\ LET b == reqs[r].body IN
       IF ~resetPasswordSchema(b)
       THEN reqs' = [reqs EXCEPT ![r].queried = reachedStore(TRUE), ![r].pc = "done", ![r].res = ValidationError]
       ELSE LET user == findOneByResetToken(users, sha256(b.token), now) IN
            IF user = Null
            THEN reqs' = [reqs EXCEPT ![r].queried = reachedStore(FALSE), ![r].ran = TRUE, ![r].pc = "done",
                             ![r].res = Err(400, "Expired or invalid token")]
            ELSE reqs' = [reqs EXCEPT ![r].queried = reachedStore(FALSE), ![r].ran = TRUE, ![r].pc = "save", ![r].loc = user,
                             ![r].at = now]
    /\ UNCHANGED <<env, now, tokens, users, nextId, nextDoc, ratings, favorites, comments, catalog, hist>>

\* resetPassword from bcryptjs.hash: the new hash is stored and the token and
\* its expiry are unset; save() of a document that is gone throws
ResetPassword2(r) ==
    /\ reqs[r].op = "resetPassword" /\ reqs[r].pc = "save"
    /\ LET user == reqs[r].loc
           stored == \E u \in users : u.id = user.id
       IN
       /\ users' = {IF u.id = user.id
                    THEN [u EXCEPT !.password = bcryptHash(reqs[r].body.newPassword),
                                   !.passwordResetToken = "",
                                   !.passwordResetExpires = 0]
                    ELSE u : u \in users}
       /\ reqs' = [reqs EXCEPT ![r].pc = "done",
                      ![r].res = IF stored THEN Msg(200, "Updated password succesfully")
                                 ELSE Err(500, "Error resetting password")]
    /\ UNCHANGED <<env, now, tokens, nextId, nextDoc, ratings, favorites, comments, catalog, hist>>

NewPassword == "Wxyz9876!"

ResetBodies ==
    {[token |-> t, newPassword |-> NewPassword, confirmPassword |-> NewPassword] :
        t \in ResetTokens \cup {"bad"}}
    \cup {[token |-> "rt1", newPassword |-> NewPassword, confirmPassword |-> "Abcd1234!"],
          [token |-> "rt1", newPassword |-> "weak", confirmPassword |-> "weak"],
          [newPassword |-> NewPassword, confirmPassword |-> NewPassword]}

ArriveReset(r, b) ==
    /\ Arrive(r, "resetPassword", NoHeader, "none", b)
    /\ UNCHANGED <<env, now, tokens, users, nextId, nextDoc, ratings, favorites, comments, catalog, hist>>

NextReset ==
    \/ Tick
    \/ \E r \in GateSlots, b \in RaceRegisterBodies : ArriveRegisterNew(r, b)
    \/ \E r \in GateSlots, b \in ForgotBodies, f \in MailFaults : ArriveForgot(r, b, f)
    \/ \E r \in GateSlots, b \in ResetBodies : ArriveReset(r, b)
    \/ \E r \in GateSlots : RegisterUser1(r)
    \/ \E r \in GateSlots : RegisterUser2(r)
    \/ \E r \in GateSlots : ForgotPassword1(r)
    \/ \E r \in GateSlots : ForgotPassword2(r)
    \/ \E r \in GateSlots : ResetPassword1(r)
    \/ \E r \in GateSlots : ResetPassword2(r)
    \/ \E r \in GateSlots : Finish(r)

SpecReset == InitUsers /\ [][NextReset]_vars

(***************************************************************************)
(* POST /api/users/logout and PUT /api/users/change-password               *)
(* (controllers/userController.ts).                                        *)
(***************************************************************************)
LogoutUser(r) ==
    /\ reqs[r].op = "logoutUser" /\ reqs[r].pc = "handler"
    /\ reqs' = [reqs EXCEPT ![r].ran = TRUE, ![r].pc = "done",
                   ![r].res = Msg(200, "Created session succesfully.")]
    /\ UNCHANGED <<env, now, tokens, users, nextId, nextDoc, ratings, favorites, comments, catalog, hist>>

\* !currentPassword || !newPassword
MissingPasswords(b) ==
    \/ ~Has(b, "currentPassword") \/ b.currentPassword = ""
    \/ ~Has(b, "newPassword") \/ b.newPassword = ""

\* the comparison with the stored hash is left out
changePasswordMatches_any(b, user) == TRUE

\* bcryptjs.compare(currentPassword, user.password)
changePasswordMatches(b, user) == bcryptCompare(b.currentPassword, user.password)

\* changePassword up to bcryptjs.compare
ChangePassword1(r) ==
    /\ reqs[r].op = "changePassword" /\ reqs[r].pc = "handler"
    /\ LET b == reqs[r].body
           user == findByIdWithPassword(users, reqs[r].userId)
       IN
       IF reqs[r].userId = ""
       THEN reqs' = [reqs EXCEPT ![r].queried = reachedStore(TRUE), ![r].ran = TRUE, ![r].pc = "done",
                        ![r].res = Err(401, "Unauthorized")]
       ELSE IF MissingPasswords(b)
       THEN reqs' = [reqs EXCEPT ![r].queried = reachedStore(TRUE), ![r].ran = TRUE, ![r].pc = "done",
                        ![r].res = Err(400, "Current and new password are required.")]
       ELSE IF user = Null
       THEN reqs' = [reqs EXCEPT ![r].queried = reachedStore(FALSE), ![r].ran = TRUE, ![r].pc = "done",
                        ![r].res = Err(404, "User not found")]
       ELSE IF ~changePasswordMatches(b, user)
       THEN reqs' = [reqs EXCEPT ![r].queried = reachedStore(FALSE), ![r].ran = TRUE, ![r].pc = "done",
                        ![r].res = Err(400, "Incorrect current password")]
       ELSE reqs' = [reqs EXCEPT ![r].queried = reachedStore(FALSE), ![r].ran = TRUE, ![r].pc = "save", ![r].loc = user]
    /\ UNCHANGED <<env, now, tokens, users, nextId, nextDoc, ratings, favorites, comments, catalog, hist>>

\* changePassword from bcryptjs.hash: user.save(), which throws when the
\* document is gone
ChangePassword2(r) ==
    /\ reqs[r].op = "changePassword" /\ reqs[r].pc = "save"
    /\ LET user == reqs[r].loc
           stored == \E u \in users : u.id = user.id
       IN
       /\ users' = {IF u.id = user.id
                    THEN [u EXCEPT !.password = bcryptHash(reqs[r].body.newPassword)]
                    ELSE u : u \in users}
       /\ reqs' = [reqs EXCEPT ![r].pc = "done",
                      ![r].res = IF stored THEN Msg(200, "Password changed successfully")
                                 ELSE Err(500, "Failed to change password")]
    /\ UNCHANGED <<env, now, tokens, nextId, nextDoc, ratings, favorites, comments, catalog, hist>>

ArriveLogout(r, hdr) ==
    /\ Arrive(r, "logoutUser", hdr, "none", NoBody)
    /\ UNCHANGED <<env, now, tokens, users, nextId, nextDoc, ratings, favorites, comments, catalog, hist>>

ArriveChange(r, hdr, b) ==
    /\ Arrive(r, "changePassword", hdr, "none", b)
    /\ UNCHANGED <<env, now, tokens, users, nextId, nextDoc, ratings, favorites, comments, catalog, hist>>

ChangeBodies ==
    {[currentPassword |-> c, newPassword |-> n] :
        c \in StrongPasswords, n \in {NewPassword}}
    \cup {[currentPassword |-> "Abcd1234!"], [newPassword |-> NewPassword],
          [currentPassword |-> "", newPassword |-> NewPassword]}

\* One account and one client: the sessions of the account while it logs
\* out, changes or resets its password and deletes itself
SessionEmail == "a@x"

ArriveSessionLogin(r, b) ==
    /\ Cardinality(tokens) < MaxTokens
    /\ ArriveLogin(r, b)

NextSession ==
    \/ Tick
    \/ \E r \in GateSlots : ArriveRegisterNew(r, Reg(SessionEmail, "Abcd1234!"))
    \/ \E r \in GateSlots, pw \in StrongPasswords :
          ArriveSessionLogin(r, [email |-> SessionEmail, password |-> pw])
    \/ \E r \in GateSlots, h \in ClientHeaders : ArriveLogout(r, h)
    \/ \E r \in GateSlots, h \in ClientHeaders : ArriveProfile(r, h)
    \/ \E r \in GateSlots, h \in ClientHeaders :
          ArriveChange(r, h, [currentPassword |-> "Abcd1234!", newPassword |-> NewPassword])
    \/ \E r \in GateSlots, h \in ClientHeaders : ArriveDelete(r, h, [password |-> "Abcd1234!"])
    \/ \E r \in GateSlots : ArriveForgot(r, [email |-> SessionEmail], "none")
    \/ \E r \in GateSlots :
          ArriveReset(r, [token |-> "rt1", newPassword |-> NewPassword,
                          confirmPassword |-> NewPassword])
    \/ \E r \in GateSlots : Authenticate(r)
    \/ \E r \in GateSlots : RegisterUser1(r)
    \/ \E r \in GateSlots : RegisterUser2(r)
    \/ \E r \in GateSlots : LoginUser(r)
    \/ \E r \in GateSlots : LogoutUser(r)
    \/ \E r \in GateSlots : GetUserProfile(r)
    \/ \E r \in GateSlots : ChangePassword1(r)
    \/ \E r \in GateSlots : ChangePassword2(r)
    \/ \E r \in GateSlots : DeleteUserAccount1(r)
    \/ \E r \in GateSlots : DeleteUserAccount2(r)
    \/ \E r \in GateSlots : ForgotPassword1(r)
    \/ \E r \in GateSlots : ForgotPassword2(r)
    \/ \E r \in GateSlots : ResetPassword1(r)
    \/ \E r \in GateSlots : ResetPassword2(r)
    \/ \E r \in GateSlots : Finish(r)

SpecSession == InitUsers /\ [][NextSession]_vars

\* One client at a time: accounts register, log in and change their password
NextChange ==
    \/ \E r \in GateSlots, b \in RaceRegisterBodies : ArriveRegisterNew(r, b)
    \/ \E r \in GateSlots, e \in {"a@x", "b@x"}, p \in StrongPasswords :
          ArriveSessionLogin(r, [email |-> e, password |-> p])
    \/ \E r \in GateSlots, h \in ClientHeaders, b \in ChangeBodies : ArriveChange(r, h, b)
    \/ \E r \in GateSlots : Authenticate(r)
    \/ \E r \in GateSlots : RegisterUser1(r)
    \/ \E r \in GateSlots : RegisterUser2(r)
    \/ \E r \in GateSlots : LoginUser(r)
    \/ \E r \in GateSlots : ChangePassword1(r)
    \/ \E r \in GateSlots : ChangePassword2(r)
    \/ \E r \in GateSlots : Finish(r)

SpecChange == InitUsers /\ [][NextChange]_vars

\* One client at a time: accounts register, log in, ask for a reset token,
\* update their profile and delete themselves
ProfileBodies ==
    UpdateBodies \cup {[firstName |-> "Eva", password |-> "hacked"],
                       [age |-> 40, email |-> "c@x", passwordResetToken |-> ""]}

NextProfile ==
    \/ \E r \in GateSlots, b \in RaceRegisterBodies : ArriveRegisterNew(r, b)
    \/ \E r \in GateSlots, b \in RaceLoginBodies : ArriveSessionLogin(r, b)
    \/ \E r \in GateSlots : ArriveForgot(r, [email |-> "a@x"], "none")
    \/ \E r \in GateSlots, h \in ClientHeaders, b \in ProfileBodies : ArriveUpdate(r, h, b)
    \/ \E r \in GateSlots, h \in ClientHeaders : ArriveDelete(r, h, [password |-> "Abcd1234!"])
    \/ \E r \in GateSlots : Authenticate(r)
    \/ \E r \in GateSlots : RegisterUser1(r)
    \/ \E r \in GateSlots : RegisterUser2(r)
    \/ \E r \in GateSlots : LoginUser(r)
    \/ \E r \in GateSlots : ForgotPassword1(r)
    \/ \E r \in GateSlots : ForgotPassword2(r)
    \/ \E r \in GateSlots : UpdateUserProfile1(r)
    \/ \E r \in GateSlots : UpdateUserProfile2(r)
    \/ \E r \in GateSlots : DeleteUserAccount1(r)
    \/ \E r \in GateSlots : DeleteUserAccount2(r)
    \/ \E r \in GateSlots : Finish(r)

SpecProfile == InitUsers /\ [][NextProfile]_vars

\* One client at a time sends well-formed and malformed bodies to the
\* handlers that validate their input
InputRegisterBodies ==
    {Reg("a@x", "Abcd1234!"), Reg("nope", "Abcd1234!"),
     [Reg("a@x", "Abcd1234!") EXCEPT !.firstName = ""]}

InputUpdateBodies == {[firstName |-> "Eva"], [email |-> "nope"], [age |-> 12]}

InputFavoriteBodies ==
    {Fav("m1", "T1"), [movieId |-> "m1", title |-> "T1"],
     [movieId |-> "m1", title |-> "", poster |-> "p.png"]}

InputRatingBodies ==
    {[movieId |-> "m1", rating |-> Stars(3)], [movieId |-> "m1", rating |-> Stars(6)],
     [movieId |-> "m1"]}

InputResetBodies ==
    {[token |-> "rt1", newPassword |-> NewPassword, confirmPassword |-> NewPassword],
     [token |-> "rt1", newPassword |-> "weak", confirmPassword |-> "weak"],
     [newPassword |-> NewPassword, confirmPassword |-> NewPassword]}

InputDeleteBodies == {[password |-> "Abcd1234!"], [none |-> TRUE]}

InputChangeBodies ==
    {[currentPassword |-> "Abcd1234!", newPassword |-> NewPassword],
     [currentPassword |-> "Wxyz9876!", newPassword |-> NewPassword],
     [currentPassword |-> "Abcd1234!"]}

NextInput ==
    \/ \E r \in GateSlots, b \in InputRegisterBodies : ArriveRegisterNew(r, b)
    \/ \E r \in GateSlots :
          ArriveSessionLogin(r, [email |-> SessionEmail, password |-> "Abcd1234!"])
    \/ \E r \in GateSlots : ArriveForgot(r, [email |-> SessionEmail], "none")
    \/ \E r \in GateSlots, h \in ClientHeaders, b \in InputUpdateBodies : ArriveUpdate(r, h, b)
    \/ \E r \in GateSlots, b \in InputResetBodies : ArriveReset(r, b)
    \/ \E r \in GateSlots, h \in ClientHeaders, b \in InputDeleteBodies : ArriveDelete(r, h, b)
    \/ \E r \in GateSlots, h \in ClientHeaders, b \in InputChangeBodies : ArriveChange(r, h, b)
    \/ \E r \in GateSlots, h \in ClientHeaders, b \in InputFavoriteBodies : ArriveFavorite(r, h, b)
    \/ \E r \in GateSlots, h \in ClientHeaders, b \in InputRatingBodies : ArriveRating(r, h, b)
    \/ \E r \in GateSlots, h \in ClientHeaders, b \in CommentBodies : ArriveCreateComment(r, h, b)
    \/ \E r \in GateSlots : Authenticate(r)
    \/ \E r \in GateSlots : RegisterUser1(r)
    \/ \E r \in GateSlots : RegisterUser2(r)
    \/ \E r \in GateSlots : LoginUser(r)
    \/ \E r \in GateSlots : ForgotPassword1(r)
    \/ \E r \in GateSlots : ForgotPassword2(r)
    \/ \E r \in GateSlots : UpdateUserProfile1(r)
    \/ \E r \in GateSlots : UpdateUserProfile2(r)
    \/ \E r \in GateSlots : ResetPassword1(r)
    \/ \E r \in GateSlots : ResetPassword2(r)
    \/ \E r \in GateSlots : DeleteUserAccount1(r)
    \/ \E r \in GateSlots : DeleteUserAccount2(r)
    \/ \E r \in GateSlots : ChangePassword1(r)
    \/ \E r \in GateSlots : ChangePassword2(r)
    \/ \E r \in GateSlots : AddFavorite1(r)
    \/ \E r \in GateSlots : AddFavorite2(r)
    \/ \E r \in GateSlots : AddRating1(r)
    \/ \E r \in GateSlots : AddRating2(r)
    \/ \E r \in GateSlots : CreateComment(r)
    \/ \E r \in GateSlots : Finish(r)

SpecInput == InitUsers /\ [][NextInput]_vars

(***************************************************************************)
(* Claims about the session gate and the token issuer.                     *)
(***************************************************************************)
GateDecided(r) == reqs[r].op # "none" /\ reqs[r].pc \in {"handler", "done"} /\ reqs[r].op \in Protected

\* The header reads "Bearer <token>" with a token that is not empty
BearerForm(h) ==
    /\ h.present
    /\ Len(h.parts) = 2
    /\ h.parts[1] = "Bearer"
    /\ h.parts[2].kind # "empty"

\* The token is a JWT signed with the configured key and not yet expired at time t
Verifies(tok, t) == tok.kind = "jwt" /\ tok.key = Secret(env) /\ t < tok.exp

\* C1: a request routed through authenticate is either rejected with 401 and
\* never reaches its handler (header absent, not "Bearer <token>", or token
\* failing verification), or next() is called exactly once with req.userId and
\* req.userEmail set to the id and email bound in the token; nothing of the
\* handler runs before the gate has decided.
C1_GateOutcome ==
    \A r \in Slots :
        LET q == reqs[r] IN
        /\ (q.pc = "gate" => ~q.ran /\ q.res = NoRes /\ q.nextCalls = 0)
        /\ (q.ran => q.nextCalls = 1)
        /\ GateDecided(r) =>
             IF BearerForm(q.hdr) /\ Verifies(q.hdr.parts[2], q.at)
             THEN /\ q.nextCalls = 1
                  /\ q.userId = q.hdr.parts[2].id
                  /\ q.userEmail = q.hdr.parts[2].email
                  /\ q.res.status # 401
                  /\ (q.pc = "handler" => q.res = NoRes /\ ~q.ran)
             ELSE /\ q.nextCalls = 0
                  /\ q.res.status = 401
                  /\ q.userId = "" /\ q.userEmail = ""
                  /\ ~q.ran
                  /\ q.pc = "done"

\* An accepted request whose handler has run, and it is account u2's
C1_Witness ==
    \E r \in Slots :
        /\ reqs[r].pc = "done" /\ reqs[r].ran
        /\ reqs[r].nextCalls = 1 /\ reqs[r].userId = "u2"

\* C2: a token issued with the default 2-hour lifetime is accepted by
\* verifyToken, which returns the id and email it was issued for, at every time
\* before issue+2h, and rejected (null, 401 at the gate) at every time after
\* issue+2h.
C2_TokenLifetime ==
    env.JWT_EXPIRES_IN = 0 =>
        /\ \A tok \in tokens :
              /\ now < tok.iat + 2 =>
                    verifyToken(tok, env, now, "none") = [id |-> tok.id, email |-> tok.email]
              /\ now > tok.iat + 2 => verifyToken(tok, env, now, "none") = Null
              /\ \E a \in GateAccounts : a.id = tok.id /\ a.email = tok.email
        /\ \A r \in Slots :
              (GateDecided(r) /\ reqs[r].hdr \in {Header(<<"Bearer", tok>>) : tok \in tokens}) =>
                  LET tok == reqs[r].hdr.parts[2] IN
                  /\ reqs[r].at < tok.iat + 2 => reqs[r].nextCalls = 1 /\ reqs[r].userId = tok.id
                  /\ reqs[r].at > tok.iat + 2 => reqs[r].nextCalls = 0 /\ reqs[r].res.status = 401

\* One token is one hour old and accepted, another is three hours old and
\* rejected, and the gate has just answered 401 to the old one
C2_Witness ==
    /\ env.JWT_EXPIRES_IN = 0
    /\ \E t1, t3 \in tokens :
          /\ now = t1.iat + 1 /\ verifyToken(t1, env, now, "none") # Null
          /\ now = t3.iat + 3 /\ verifyToken(t3, env, now, "none") = Null
          /\ \E r \in Slots :
                /\ reqs[r].pc = "done" /\ reqs[r].hdr = Header(<<"Bearer", t3>>)
                /\ reqs[r].at = now /\ reqs[r].res.status = 401

\* C3: with no JWT_SECRET configured outside development, no token is signed
\* with the built-in default key and no request is admitted on such a token.
C3_NoDefaultKeyOutsideDev ==
    (env.JWT_SECRET = "" /\ env.NODE_ENV # "development") =>
        /\ \A tok \in tokens : tok.key # FallbackSecret
        /\ \A r \in Slots : GateDecided(r) => reqs[r].nextCalls = 0

\* C4: an unexpected internal failure during the gate's check (the header
\* extraction throws, or the verification the request reaches throws) is
\* answered with 500 and never with 401.
C4_InternalFailureIs500 ==
    \A r \in Slots :
        LET q == reqs[r] IN
        (/\ GateDecided(r)
         /\ \/ q.fault = "extract"
            \/ q.fault = "verify" /\ ~Falsy(extractTokenFromHeader(q.hdr)))
        => q.res.status = 500

(***************************************************************************)
(* Claims about the account routes.                                        *)
(***************************************************************************)
\* The account of a 201 is still stored as it was registered
Intact(h) ==
    \E u \in users : UserView(u) = h.user /\ bcryptCompare(h.password, u.password)

Completes(r, op, pc) ==
    reqs[r].op = op /\ reqs[r].pc = pc /\ reqs'[r].pc = "done"

\* C5: after a registration answered 201, a login with the same email and
\* password answers 200 with a token that verifies for the new account; GET
\* /api/users/me with that token passes the gate and answers 200 with the
\* profile the 201 showed (id, names, age, email); without a token it answers
\* 401.
C5_RegisterLoginProfile ==
    [][\A r \in GateSlots :
        /\ Completes(r, "loginUser", "handler") =>
              \A h \in hist :
                  (/\ Intact(h)
                   /\ reqs[r].body.email = h.email
                   /\ reqs[r].body.password = h.password)
                  => /\ reqs'[r].res.status = 200
                     /\ reqs'[r].res.body.token \in tokens'
                     /\ verifyToken(reqs'[r].res.body.token, env, now, "none")
                           = [id |-> h.user.id, email |-> h.user.email]
                     /\ reqs'[r].res.body.user = h.user
        /\ (reqs[r].op = "getUserProfile" /\ reqs[r].pc = "gate" /\ reqs'[r].pc # "gate") =>
              /\ reqs[r].hdr = NoHeader =>
                    reqs'[r].res.status = 401 /\ reqs'[r].pc = "done"
              /\ \A h \in hist, t \in tokens :
                    (reqs[r].hdr = Header(<<"Bearer", t>>) /\ t.id = h.user.id) =>
                        reqs'[r].pc = "handler" /\ reqs'[r].userId = h.user.id
        /\ Completes(r, "getUserProfile", "handler") =>
              \A h \in hist :
                  (Intact(h) /\ reqs[r].userId = h.user.id) =>
                      reqs'[r].res.status = 200 /\ reqs'[r].res.body.user = h.user
    ]_vars

\* The profile of an account registered as "A@x" has been read with its token
C5_Witness ==
    \E r \in GateSlots, h \in hist :
        /\ h.email = "A@x" /\ Intact(h)
        /\ reqs[r].op = "getUserProfile" /\ reqs[r].pc = "done"
        /\ reqs[r].hdr \in {Header(<<"Bearer", t>>) : t \in tokens}
        /\ reqs[r].res.status = 200
        /\ reqs[r].res.body.user = h.user

SecretFields == {"password", "passwordResetToken", "passwordResetExpires"}

\* Every password sent so far and every stored hash
Secrets == StrongPasswords \cup {bcryptHash(p) : p \in StrongPasswords} \cup {u.password : u \in users}

\* The strings a response body carries
StringsOf(body) ==
    (IF Has(body, "error") THEN {body.error} ELSE {})
    \cup (IF Has(body, "message") THEN {body.message} ELSE {})
    \cup (IF Has(body, "token") THEN {body.token.id, body.token.email, body.token.key} ELSE {})
    \cup (IF Has(body, "user")
          THEN {body.user[f] : f \in DOMAIN body.user \ {"age"}}
          ELSE {})

\* C6: no response of registerUser, loginUser, getUserProfile or
\* updateUserProfile carries the account's password or its hash, under a field
\* of that name or as a value.
C6_NoPasswordInResponse ==
    \A r \in Slots :
        (/\ reqs[r].op \in {"registerUser", "loginUser", "getUserProfile", "updateUserProfile"}
         /\ reqs[r].res # NoRes)
        => LET body == reqs[r].res.body IN
           /\ DOMAIN body \cap SecretFields = {}
           /\ Has(body, "user") => DOMAIN body.user \cap SecretFields = {}
           /\ StringsOf(body) \cap Secrets = {}

\* A login has answered 200 for a stored account
C6_Witness ==
    \E r \in Slots :
        /\ reqs[r].op = "loginUser" /\ reqs[r].pc = "done" /\ reqs[r].res.status = 200
        /\ \E u \in users : u.id = reqs[r].res.body.user.id /\ u.password \in Secrets

\* Another account already holds this email, letter case ignored
Collides(us, id, email) ==
    \E u \in us : u.id # id /\ toLowerCase(u.email) = toLowerCase(email)

UniqueEmails(us) ==
    \A u1, u2 \in us : u1.id # u2.id => toLowerCase(u1.email) # toLowerCase(u2.email)

\* C7: under any interleaving of registerUser and updateUserProfile no two
\* stored accounts have emails equal up to letter case, and a registration or
\* an email change that collides with another account's email is answered 409
\* and leaves the store unchanged.
C7_UniqueEmailsAnd409 ==
    [][/\ UniqueEmails(users')
       /\ \A r \in Slots :
            /\ (/\ reqs[r].op = "registerUser"
                /\ reqs[r].pc \in {"handler", "create"} /\ reqs'[r].pc = "done"
                /\ registerSchema(reqs[r].body)
                /\ Collides(users, "", reqs[r].body.email))
               => reqs'[r].res.status = 409 /\ users' = users
            /\ (/\ reqs[r].op = "updateUserProfile"
                /\ reqs[r].pc \in {"handler", "update"} /\ reqs'[r].pc = "done"
                /\ reqs[r].userId # ""
                /\ updateProfileSchema(reqs[r].body)
                /\ Has(reqs[r].body, "email")
                /\ Collides(users, reqs[r].userId, reqs[r].body.email))
               => reqs'[r].res.status = 409 /\ users' = users
    ]_vars

\* What the code does keep: the emails stay unique, and a colliding request
\* changes nothing, answered 409 or, when only the index catches it, 500
UniqueEmailsKept ==
    [][/\ UniqueEmails(users')
       /\ \A r \in Slots :
            (/\ reqs[r].op \in {"registerUser", "updateUserProfile"}
             /\ reqs[r].pc \in {"handler", "create", "update"} /\ reqs'[r].pc = "done"
             /\ reqs'[r].res.status \in {409, 500})
            => users' = users
    ]_vars

(***************************************************************************)
(* Claims about ratings and favorites.                                     *)
(***************************************************************************)
PairOf(coll, userId, movieId) == {x \in coll : SamePair(x, userId, movieId)}

OnePerPair(coll) ==
    \A x, y \in coll : SamePair(x, y.userId, y.movieId) => x = y

\* The handler of slot r answers in this step a request that passed its checks
Answers(r, op) ==
    /\ reqs[r].op = op /\ reqs[r].pc \in {"handler", "save"} /\ reqs'[r].pc = "done"
    /\ reqs'[r].res.status \notin {400, 401}

\* C8: addRating submitted in sequence for one (account, movie): with no
\* rating stored for the pair it answers 201 and stores one new record with
\* the submitted value; with a rating stored it answers 200 and changes the
\* value of that same record, so the pair always has exactly one record, and
\* the same value submitted twice is the value stored.
C8_RatingTwiceInSequence ==
    [][\A r \in GateSlots :
          Answers(r, "addRating") =>
             LET b == reqs[r].body
                 old == PairOf(ratings, reqs[r].userId, b.movieId)
                 new == PairOf(ratings', reqs[r].userId, b.movieId)
             IN
             /\ reqs'[r].res.status = IF old = {} THEN 201 ELSE 200
             /\ Cardinality(new) = 1
             /\ \A x \in new : x.rating = b.rating /\ reqs'[r].res.body.rating = x
             /\ ratings' \ new = ratings \ old
             /\ old = {} => \A x \in new, y \in ratings : x.id # y.id
             /\ old # {} => {x.id : x \in new} = {x.id : x \in old}
    ]_vars

\* The rating a 201 created has been submitted again with the same value
C8_Witness ==
    \E r \in GateSlots, h \in hist :
        /\ reqs[r].op = "addRating" /\ reqs[r].pc = "done"
        /\ reqs[r].res.status = 200
        /\ reqs[r].res.body.rating = h
        /\ PairOf(ratings, reqs[r].userId, reqs[r].body.movieId) = {h}

\* C9: when two addRating requests for one (account, movie) have both read
\* "no existing rating", the pair never gets two records: the write that comes
\* second fails on the unique key, its request gets a failure response, and
\* the rating written first stays as it is.
C9_RatingRace ==
    [][/\ OnePerPair(ratings')
       /\ \A r \in Slots :
            (/\ reqs[r].op = "addRating" /\ reqs[r].pc = "save"
             /\ reqs'[r].pc = "done"
             /\ reqs[r].loc = Null
             /\ PairOf(ratings, reqs[r].userId, reqs[r].body.movieId) # {})
            => /\ reqs'[r].res.status \in 400..599
               /\ ratings' = ratings
    ]_vars

\* The second of two racing submissions has been refused, the first is stored
C9_Witness ==
    \E r \in Slots, h \in hist :
        /\ reqs[r].op = "addRating" /\ reqs[r].pc = "done"
        /\ reqs[r].loc = Null
        /\ reqs[r].res.status = 500
        /\ SamePair(h, reqs[r].userId, reqs[r].body.movieId)
        /\ h.rating # reqs[r].body.rating
        /\ PairOf(ratings, h.userId, h.movieId) = {h}

\* C10: addFavorite called in sequence for one (account, movieId): with no
\* favorite stored for the pair it answers 201 and stores one record with the
\* fields of the call; with one stored it answers 409 and writes nothing, so
\* the pair has exactly one favorite, with the fields the first call gave.
C10_FavoriteTwiceInSequence ==
    [][/\ hist' \subseteq favorites'
       /\ \A r \in GateSlots :
          Answers(r, "addFavorite") =>
             LET b == reqs[r].body
                 old == PairOf(favorites, reqs[r].userId, b.movieId)
                 new == PairOf(favorites', reqs[r].userId, b.movieId)
             IN
             /\ Cardinality(new) = 1
             /\ old = {} => /\ reqs'[r].res.status = 201
                            /\ favorites' = favorites \cup new
                            /\ \A x \in new : /\ x.title = b.title
                                              /\ x.poster = b.poster
                                              /\ x.note = NoteOf(b)
                                              /\ reqs'[r].res.body = x
             /\ old # {} => /\ reqs'[r].res.status = 409
                            /\ favorites' = favorites
    ]_vars

\* A second call with another title has been refused; the first title is kept
C10_Witness ==
    \E r \in GateSlots, h \in hist :
        /\ reqs[r].op = "addFavorite" /\ reqs[r].pc = "done"
        /\ reqs[r].res.status = 409
        /\ SamePair(h, reqs[r].userId, reqs[r].body.movieId)
        /\ h.title # reqs[r].body.title
        /\ PairOf(favorites, h.userId, h.movieId) = {h}

\* C11: in every reachable state, concurrent addFavorite requests included,
\* the store holds at most one favorite for each (account, movieId).
C11_OneFavoritePerPair ==
    OnePerPair(favorites)

(***************************************************************************)
(* Claims about ownership.                                                 *)
(***************************************************************************)
\* The handler of slot r answers in this step a request the gate let through
AnswersAs(r, op) ==
    /\ reqs[r].op = op /\ reqs[r].pc \in {"handler", "save"} /\ reqs'[r].pc = "done"
    /\ reqs[r].userId # ""

OthersComment(r) ==
    /\ reqs[r].params.id.valid
    /\ \E c \in comments : c.id = reqs[r].params.id.n /\ c.userId # reqs[r].userId

OthersFavoriteById(r) ==
    /\ reqs[r].params.id.valid
    /\ \E f \in favorites : f.id = reqs[r].params.id.n /\ f.userId # reqs[r].userId

\* Another account has a favorite for the movie and the caller has none
OthersFavoriteByMovie(r) ==
    /\ \E f \in favorites : f.movieId = reqs[r].params.movieId /\ f.userId # reqs[r].userId
    /\ PairOf(favorites, reqs[r].userId, reqs[r].params.movieId) = {}

\* C12: updateComment, deleteComment, updateFavoriteNote or removeFavorite
\* called by an authenticated account on a comment or favorite of another
\* account answers 404 or 403 and leaves that record stored with every field
\* unchanged.
C12_OwnerOnly ==
    [][\A r \in GateSlots :
        /\ \A op \in {"updateComment", "deleteComment"} :
              (AnswersAs(r, op) /\ OthersComment(r))
              => reqs'[r].res.status \in {403, 404} /\ comments' = comments
        /\ (AnswersAs(r, "updateFavoriteNote") /\ OthersFavoriteById(r))
              => reqs'[r].res.status \in {403, 404} /\ favorites' = favorites
        /\ (AnswersAs(r, "removeFavorite") /\ OthersFavoriteByMovie(r))
              => reqs'[r].res.status \in {403, 404} /\ favorites' = favorites
        /\ \A op \in {"updateComment", "deleteComment", "updateFavoriteNote", "removeFavorite"} :
              AnswersAs(r, op)
              => /\ {c \in comments : c.userId # reqs[r].userId} \subseteq comments'
                 /\ {f \in favorites : f.userId # reqs[r].userId} \subseteq favorites'
    ]_vars

\* An edit of another account's comment has been refused and the comment is
\* stored with its text
C12_Witness ==
    \E r \in GateSlots, c \in comments :
        /\ reqs[r].op = "updateComment" /\ reqs[r].pc = "done"
        /\ reqs[r].userId # "" /\ c.userId # reqs[r].userId
        /\ reqs[r].params.id = Oid(c.id)
        /\ Has(reqs[r].body, "text") /\ reqs[r].body.text # c.text
        /\ reqs[r].res.status = 404

RatingOp(r) == AnswersAs(r, "updateRating") \/ AnswersAs(r, "deleteRating")

OthersRating(r) ==
    /\ reqs[r].params.id.valid
    /\ \E x \in ratings : x.id = reqs[r].params.id.n /\ x.userId # reqs[r].userId

\* The id of the request is the id of no stored rating
NoSuchRating(r) == \A x \in ratings : Oid(x.id) # reqs[r].params.id

CurrentPassword(r) ==
    /\ ~NoPassword(reqs[r].body)
    /\ \E u \in users : u.id = reqs[r].userId /\ u.password = bcryptHash(reqs[r].body.password)

DeleteAnswers(r) ==
    /\ reqs[r].op = "deleteUserAccount"
    /\ reqs[r].pc \in {"handler", "delete"} /\ reqs'[r].pc = "done"
    /\ reqs[r].userId # ""

\* C14: deleteUserAccount removes the caller's account, and only that one,
\* only when the body carries the account's current password; with a missing
\* password it answers 400, with a wrong one 401, and the accounts stay as
\* they are although the token is valid.
C14_DeleteNeedsPassword ==
    [][\A r \in GateSlots :
        DeleteAnswers(r) =>
           /\ users' # users =>
                 /\ CurrentPassword(r)
                 /\ users' = {u \in users : u.id # reqs[r].userId}
           /\ NoPassword(reqs[r].body) =>
                 reqs'[r].res.status = 400 /\ users' = users
           /\ (/\ ~NoPassword(reqs[r].body) /\ ~CurrentPassword(r)
               /\ \E u \in users : u.id = reqs[r].userId) =>
                 reqs'[r].res.status = 401 /\ users' = users
    ]_vars

\* A deletion with a valid token and another password has been refused and the
\* account is still stored
C14_Witness ==
    \E r \in GateSlots, u \in users :
        /\ reqs[r].op = "deleteUserAccount" /\ reqs[r].pc = "done"
        /\ reqs[r].userId = u.id
        /\ ~NoPassword(reqs[r].body)
        /\ u.password # bcryptHash(reqs[r].body.password)
        /\ reqs[r].res.status = 401

ForgotDone(r) == reqs[r].op = "forgotPassword" /\ reqs[r].pc = "done"

\* C15: the response of forgotPassword is success-shaped and the same (status
\* and body shape) whether or not an account exists for the email: two requests
\* that differ only in that cannot be told apart by their responses.
C15_ForgotPasswordUniform ==
    \A r1, r2 \in Slots :
        (ForgotDone(r1) /\ ForgotDone(r2) /\ reqs[r1].fault = "none" /\ reqs[r2].fault = "none")
        => /\ reqs[r1].res.status = 200
           /\ reqs[r1].res.status = reqs[r2].res.status
           /\ DOMAIN reqs[r1].res.body = DOMAIN reqs[r2].res.body

ValidSession(q) == BearerForm(q.hdr) /\ Verifies(q.hdr.parts[2], q.at)

\* C16: a request without a valid session token never updates or deletes a
\* movie: PUT and DELETE /api/movies/:id are answered 401 by the gate and
\* updateMovie / deleteMovie do not run for them.
C16_CatalogMutationsNeedSession ==
    \A r \in GateSlots :
        LET q == reqs[r] IN
        (q.op \in {"updateMovie", "deleteMovie"} /\ q.pc = "done" /\ ~ValidSession(q))
        => (q.res.status = 401 /\ ~q.ran)

ListsMovies(r) == reqs[r].op = "getMovies" /\ reqs[r].pc = "handler" /\ reqs'[r].pc = "done"

\* C17: getMovies on a reachable, empty store calls the provider, stores the
\* fetched items with their externalIds and answers the store contents tagged
\* source=store; on an unreachable store it answers the provider's items
\* tagged source=external and writes nothing.
C17_ListSourceSelection ==
    [][\A r \in GateSlots :
          ListsMovies(r) =>
             LET res == reqs'[r].res IN
             IF dbUp
             THEN movies = {} =>
                    /\ res.status = 200
                    /\ Has(res.body, "source")
                    /\ res.body.source = "store"
                    /\ fetches' = fetches + 1
                    /\ movies' # {}
                    /\ \A m \in movies' : m.externalId # ""
             ELSE /\ res.status = 200
                  /\ Has(res.body, "source")
                  /\ res.body.source = "external"
                  /\ movies' = movies]_vars

\* C18: no two stored movies carry the same externalId.
C18_UniqueExternalId ==
    \A m1, m2 \in movies :
        (m1.externalId # "" /\ m1.externalId = m2.externalId) => m1 = m2

\* C19: when getMovies falls back to the provider, a call within the life of
\* the cache entry (60 seconds) is served from the cache and makes no provider
\* call, and a call with no live entry makes exactly one provider call and
\* stores its result in the cache.
C19_FallbackCache ==
    [][\A r \in GateSlots :
          (ListsMovies(r) /\ ~dbUp) =>
             IF getFromCache(cache, "popular", now) = Null
             THEN /\ fetches' = fetches + 1
                  /\ "popular" \in DOMAIN cache'
                  /\ cache'["popular"].expires = now + CACHE_TTL
             ELSE fetches' = fetches /\ cache' = cache]_vars

LooksUpMovie(r) ==
    reqs[r].op = "getMovieById" /\ reqs[r].pc = "handler" /\ reqs'[r].pc = "done" /\ dbUp

ByInternalId(id) == IF ObjectIdIsValid(id) THEN findMovieById(movies, id) ELSE Null

MailFailed(r) == ForgotDone(r) /\ reqs[r].fault = "mail" /\ reqs[r].loc # NoBody

\* C21: when sending the reset email fails during forgotPassword for an
\* existing account, the answer is a failure (500 with an error), never a
\* success-shaped one.
C21_MailFailureIsSurfaced ==
    \A r \in Slots :
        MailFailed(r) =>
            /\ reqs[r].res.status = 500
            /\ Has(reqs[r].res.body, "error")
            /\ ~Has(reqs[r].res.body, "message")

C21_Witness == \E r \in Slots : MailFailed(r)

\* the accounts whose stored reset token is the hash of token and not expired at t
LiveFor(token, t) ==
    {u \in users : u.passwordResetToken = sha256(token) /\ u.passwordResetExpires > t}

ResetStep(r, from) ==
    reqs[r].op = "resetPassword" /\ reqs[r].pc = from /\ reqs'[r].pc # from

\* C22: resetPassword changes a password only when the submitted token hashes
\* to the account's stored reset token and the stored expiry (one hour after
\* the forgotPassword that issued it) is still in the future; a successful
\* reset clears the stored token and expiry, and a token that matches no live
\* stored token (used, expired or superseded) is answered 400 with no change.
C22_ResetNeedsLiveToken ==
    [][/\ \A r \in GateSlots :
            /\ ResetStep(r, "handler") =>
                 LET b == reqs[r].body
                     live == IF Has(b, "token") THEN LiveFor(b.token, now) ELSE {}
                 IN /\ users' = users
                    /\ IF resetPasswordSchema(b) /\ live # {}
                       THEN reqs'[r].pc = "save" /\ reqs'[r].loc \in live
                       ELSE reqs'[r].pc = "done" /\ reqs'[r].res.status = 400
            /\ ResetStep(r, "save") =>
                 /\ reqs'[r].res.status = 200
                 /\ \E u \in users :
                       /\ u.id = reqs[r].loc.id
                       /\ u.passwordResetToken = sha256(reqs[r].body.token)
                       /\ u.passwordResetExpires > reqs[r].at
                       /\ users' = (users \ {u}) \cup
                             {[u EXCEPT !.password = bcryptHash(reqs[r].body.newPassword),
                                        !.passwordResetToken = "",
                                        !.passwordResetExpires = 0]}
            /\ (reqs[r].op = "forgotPassword" /\ reqs[r].pc = "save" /\ reqs'[r].pc = "done") =>
                 \A u \in users' : u.id = reqs[r].loc.id => u.passwordResetExpires = now + 1
       /\ \A u \in users, v \in users' :
            (u.id = v.id /\ u.password # v.password) =>
               \E r \in GateSlots : ResetStep(r, "save") /\ reqs[r].loc.id = u.id]_vars

\* a reset with a well-formed token is refused after a reset has succeeded
C22_Witness ==
    \E r \in GateSlots :
        /\ reqs[r].op = "resetPassword" /\ reqs[r].pc = "done"
        /\ reqs[r].res.status = 400
        /\ resetPasswordSchema(reqs[r].body)
        /\ reqs[r].body.token \in ResetTokens
        /\ \E u \in users : u.password = bcryptHash(NewPassword)

\* C23: after setCache(k, d) at time t, getFromCache(k) returns d at every
\* time up to and including t + 60 s, however often it has been read, and null
\* afterwards; a read leaves a live entry alone and deletes an expired one,
\* and a later setCache restarts the window.
C23_CacheExpiresByTime ==
    [][/\ \A h \in hist' :
            getFromCache(cache', h.key, now') = IF now' <= h.at + 1 THEN h.data ELSE Null
       /\ \A k \in CacheKeys :
            (cache' # cache /\ hist' = hist /\ k \in DOMAIN cache /\ k \notin DOMAIN cache')
               => now > cache[k].expires
       /\ \A k \in CacheKeys :
            (k \in DOMAIN cache /\ now' = now /\ hist' = hist /\ now <= cache[k].expires)
               => (k \in DOMAIN cache' /\ cache'[k] = cache[k])]_vars

\* an entry written earlier is expired and has been deleted by a read
C23_Witness ==
    \E h \in hist : now > h.at + 1 /\ h.key \notin DOMAIN cache

\* C24: every stored rating has an integer value in 1..5.
C24_RatingIsInteger1to5 ==
    \A x \in ratings :
        IsInteger(x.rating) /\ x.rating >= Stars(1) /\ x.rating <= Stars(5)

\* C25: every stored comment has a text of at most 500 characters.
C25_CommentAtMost500 == \A c \in comments : ~TooLong(c.text)

\* the documents of coll that are still there afterwards, with what they became
Kept(coll, after) == {<<x, y>> \in coll \X after : x.id = y.id}

\* C26: the userId and the movieId of a favorite, a rating or a comment never
\* change once the record exists: updateComment changes only the text (and the
\* update time), updateFavoriteNote only the note, addRating and updateRating
\* only the rating value.
C26_OwnerAndMovieAreFixed ==
    [][/\ \A p \in Kept(comments, comments') :
            p[2] = [p[1] EXCEPT !.text = p[2].text, !.updatedAt = p[2].updatedAt]
       /\ \A p \in Kept(favorites, favorites') : p[2] = [p[1] EXCEPT !.note = p[2].note]
       /\ \A p \in Kept(ratings, ratings') : p[2] = [p[1] EXCEPT !.rating = p[2].rating]]_vars

\* a comment, a favorite and a rating have each been changed by an update
C26_Witness ==
    /\ \E c \in comments : c.text = "bye"
    /\ \E f \in favorites : f.note = "seen"
    /\ \E x \in ratings : x.rating \in {Stars(4), Stars(5)}

\* the request is past the gate, or was answered by it
Decided(q) == q.op \in Protected /\ q.pc \notin {"idle", "gate"}

\* C27: what the gate decides depends on the presented token and the time
\* only, whatever has happened to the account since the login (logout, change
\* or reset of the password, deletion); logoutUser changes nothing on the
\* server; for a deleted account the gate still passes and getUserProfile
\* answers 404.
C27_GateIsStateless ==
    [][\A r \in GateSlots :
          LET q == reqs'[r] IN
          /\ Decided(q) =>
               ((q.nextCalls = 1) <=> (BearerForm(q.hdr) /\ Verifies(q.hdr.parts[2], q.at)))
          /\ (reqs[r].op = "logoutUser" /\ reqs[r].pc = "handler" /\ q.pc = "done") =>
               /\ q.res.status = 200
               /\ UNCHANGED <<env, now, tokens, users, nextId, nextDoc, ratings, favorites,
                              comments, catalog, hist>>
          /\ (reqs[r].op = "getUserProfile" /\ reqs[r].pc = "handler" /\ q.pc = "done"
                /\ ~\E u \in users : u.id = reqs[r].userId) =>
               q.res.status = 404]_vars

\* the token of a login passes the gate after the account has changed its
\* password and deleted itself
C27_Witness ==
    \E r \in GateSlots :
        /\ reqs[r].op = "getUserProfile" /\ reqs[r].pc = "done"
        /\ reqs[r].nextCalls = 1
        /\ reqs[r].hdr.parts[2] \in tokens
        /\ reqs[r].res.status = 404
        /\ users = {}

ChangeStep(r, from) ==
    reqs[r].op = "changePassword" /\ reqs[r].pc = from /\ reqs'[r].pc # from

\* the status of a login with this email and password on the accounts us
LoginStatus(us, email, password) ==
    loginUser([email |-> email, password |-> password], us, env, now).status

ProfileFields == {"firstName", "lastName", "age", "email"}

UpdateStep(r) ==
    /\ reqs[r].op = "updateUserProfile"
    /\ reqs[r].pc \in {"handler", "update"}
    /\ reqs'[r].pc # reqs[r].pc

ValidatingOps ==
    {"registerUser", "updateUserProfile", "resetPassword", "deleteUserAccount",
     "changePassword", "addFavorite", "addRating", "createComment"}

\* the body lacks a required field or holds a value the handler's validation
\* refuses
Malformed(op, b) ==
    CASE op = "registerUser" -> ~registerSchema(b)
      [] op = "updateUserProfile" -> ~updateProfileSchema(b)
      [] op = "resetPassword" -> ~resetPasswordSchema(b)
      [] op = "deleteUserAccount" -> NoPassword(b)
      [] op = "changePassword" -> MissingPasswords(b)
      [] op = "addFavorite" -> MissingFavoriteFields(b)
      [] op = "addRating" -> MissingRatingFields(b) \/ RatingOutOfRange(b)
      [] op = "createComment" -> MissingCommentFields(b)
      [] OTHER -> FALSE

RejectedInput(q) ==
    /\ q.op \in ValidatingOps /\ q.pc = "done"
    /\ q.res.status = 400
    /\ Malformed(q.op, q.body)

\* C30: when registerUser, updateUserProfile, resetPassword,
\* deleteUserAccount, changePassword, addFavorite, addRating or createComment
\* answers 400 to a missing or malformed input, the handler has sent no query
\* to the store for that request and the store is as it was.
C30_ValidationBeforeStore ==
    [][\A r \in GateSlots :
          (reqs[r].pc # "done" /\ RejectedInput(reqs'[r])) =>
             /\ ~reqs'[r].queried
             /\ UNCHANGED <<users, nextId, nextDoc, ratings, favorites, comments, catalog>>]_vars

\* a logged-in account with a stored rating has sent a rating out of range
C30_Witness ==
    \E r \in GateSlots :
        /\ RejectedInput(reqs[r])
        /\ reqs[r].op = "addRating"
        /\ Has(reqs[r].body, "rating")
        /\ ~reqs[r].queried
        /\ \E x \in ratings : x.userId = reqs[r].userId

====
